---- MODULE Spec2Model ----
(***************************************************************************)
(* Document ingestion and retrieval-augmented question answering backend.  *)
(*                                                                         *)
(* Part I   storage, vector index, progress tracker and the two ingestion  *)
(*          entry points (the /upload route and                            *)
(*          DocumentProcessor.process_document)      -- specification Spec *)
(* Part II  the retriever: single-shot and streaming question answering    *)
(*                                                  -- specification SpecQA*)
(*          the search route and the store's deletion                      *)
(*                                               -- specification SpecStore*)
(* SpecConcurrent and SpecDelete run the ingestion entry points of Part I  *)
(* where no collaborator fails: several requests at once, and requests     *)
(* together with DELETE /delete/{file_id}.                                 *)
(* SpecLifecycle and SpecDimension follow the index through ingestions,    *)
(* deletions, resets and a change of the embedding model; SpecProgress and *)
(* SpecProgressFair watch one upload through GET /progress/{file_id};      *)
(* SpecFiles and SpecChunks call the storage service and create_chunks     *)
(* directly.                                                               *)
(*                                                                         *)
(* Strings are sequences of string tokens, so that concatenation is \o and *)
(* "contains" is a sub-sequence test.  Texts are represented by their      *)
(* length in characters.  uuid4() is a fresh number drawn from a counter.  *)
(***************************************************************************)
EXTENDS Integers, Sequences, FiniteSets, TLC

VARIABLES
    next_uuid,      \* the next value uuid.uuid4() returns
    disk,           \* UPLOAD_DIR: unique_filename -> file content
    metadata,       \* file_metadata.json: file_id -> metadata entry
    metadata_file,  \* whether file_metadata.json exists in UPLOAD_DIR
    collection,     \* the ChromaDB collection: a set of entries
    progress_data,  \* ProgressTracker.progress_data: file_id -> data
    stage_log,      \* history: the values written to current_stage, per file_id
    req,            \* the ingestion requests in flight
    running,        \* the request that holds the event loop (0: none)
    resets,         \* number of application resets performed
    qa,             \* the question-answering request (Part II)
    env,            \* the environment: requests still to arrive, and whether
                    \* the collaborators (disk, provider, store) may fail
    calls,          \* history: the operations each ingestion invoked, in order
    del_resp,       \* the last answer of DELETE /delete/{file_id}
    store_log,      \* history: the calls of delete_documents_by_file_id
    listeners,      \* ProgressTracker.listeners: file_id -> the queues registered
    streams,        \* the event generators of GET /progress/{file_id}
    splitter,       \* a direct call of create_chunks: arguments and result
    fs_log,         \* history: the calls of the storage service made directly
    dimensionality, \* the dimension the collection has established (0: none yet)
    wiped           \* history: the ids of the entries a reset has destroyed

vars == <<next_uuid, disk, metadata, metadata_file, collection, progress_data, stage_log,
          req, running, resets, qa, env, calls, del_resp, store_log,
          listeners, streams, splitter, fs_log, dimensionality, wiped>>

ingest_vars == <<next_uuid, disk, metadata, metadata_file, progress_data, stage_log,
                 req, running, resets, env, calls, del_resp,
                 listeners, streams, splitter, fs_log, wiped>>

(***************************************************************************)
(* Bounds of the model                                                     *)
(***************************************************************************)
MaxUploads == 1
MaxConcurrent == 2
MaxResets == 1
MaxDeletes == 2
MaxDeleteCalls == 2
MaxFragments == 3
MaxK == 2
MaxSearchK == 3
MaxDocs == 2
MaxStreams == 2
MaxSegments == 2
MaxStorageCalls == 3
MaxKeepalives == 1

(***************************************************************************)
(* Program constants                                                       *)
(***************************************************************************)
CHUNK_SIZE == 800
CHUNK_OVERLAP == 175

Reqs == 1..MaxConcurrent
Streams == 1..MaxStreams

NoId == 0
Absent == -1            \* a key that a metadata dict does not hold

Range(s) == {s[i] : i \in DOMAIN s}

\* str.__contains__ on token sequences
Contains(s, sub) ==
    \E i \in 1..(Len(s) - Len(sub) + 1) :
        SubSeq(s, i, i + Len(sub) - 1) = sub

(***************************************************************************)
(* Files a client can upload: a name and the text of each page (by length).*)
(* .txt files load as one document, .pdf files as one document per page.   *)
(***************************************************************************)
Uploadable ==
    { [filename |-> "a.txt",      pages |-> <<2000>>],
      [filename |-> "a.txt",      pages |-> <<500>>],
      [filename |-> "report.pdf", pages |-> <<900, 300>>] }

get_file_extension(filename) ==
    CASE filename = "a.txt"      -> ".txt"
      [] filename = "report.pdf" -> ".pdf"
      [] OTHER                   -> ""

content_type_map(ext) ==
    CASE ext = ".txt"  -> "text/plain"
      [] ext = ".pdf"  -> "application/pdf"
      [] ext = ".docx" -> "application/vnd.openxmlformats-officedocument.wordprocessingml.document"
      [] OTHER         -> "application/octet-stream"

(***************************************************************************)
(* ProgressTracker                                                         *)
(***************************************************************************)
stage_order == <<"uploading", "extracting", "chunking", "embedding", "indexing">>

StageIndex(stage) ==
    IF \E i \in DOMAIN stage_order : stage_order[i] = stage
    THEN CHOOSE i \in DOMAIN stage_order : stage_order[i] = stage
    ELSE 0

\* a table that gives embedding less than chunking
stage_progress_unordered(stage) ==
    CASE stage = "uploading"  -> 10
      [] stage = "extracting" -> 30
      [] stage = "chunking"   -> 50
      [] stage = "embedding"  -> 40
      [] stage = "indexing"   -> 90
      [] stage = "completed"  -> 100
      [] OTHER                -> 0

stage_progress(stage) ==
    CASE stage = "uploading"  -> 10
      [] stage = "extracting" -> 30
      [] stage = "chunking"   -> 50
      [] stage = "embedding"  -> 75
      [] stage = "indexing"   -> 90
      [] stage = "completed"  -> 100
      [] OTHER                -> 0

\* the entry start_processing creates
start_processing_data(file_id, filename) ==
    [ file_id |-> file_id,
      filename |-> filename,
      current_stage |-> "uploading",
      progress_percentage |-> 0,
      stages |-> [s \in Range(stage_order) |->
                    IF s = "uploading" THEN "active" ELSE "pending"],
      completed |-> FALSE,
      error_message |-> <<>> ]

\* update_stage raises KeyError('failed') at
\*   data["stages"][data["current_stage"]]["status"] = "failed"
\* because current_stage has already been overwritten with "failed", which is
\* no key of data["stages"].
update_stage_raises(stage) == stage = "failed" /\ "failed" \notin Range(stage_order)

\* update_stage recording the stage only when it is one of stage_order
update_stage_data_listed_only(data, stage, message, progress) ==
    IF StageIndex(stage) = 0 THEN data
    ELSE [data EXCEPT !.current_stage = stage]

\* the data update_stage leaves behind (also when it raises: every assignment
\* before the failing one has been made)
update_stage_data(data, stage, message, progress) ==
    LET current_index == StageIndex(stage)
        marked == [s \in Range(stage_order) |->
                     IF StageIndex(s) < current_index THEN "completed"
                     ELSE IF StageIndex(s) = current_index THEN "active"
                     ELSE "pending"]
    IN  [ data EXCEPT
            !.current_stage = stage,
            !.progress_percentage =
                IF progress # Absent THEN progress ELSE stage_progress(stage),
            !.stages =
                IF stage = "completed"
                THEN [s \in Range(stage_order) |-> "completed"]
                ELSE marked,
            !.completed = (stage \in {"completed", "failed"}),
            !.error_message =
                IF stage = "failed" THEN message ELSE data.error_message ]

\* progress_data after update_stage(file_id, ...): untracked ids are ignored
update_stage(pd, file_id, stage, message, progress) ==
    IF file_id \notin DOMAIN pd THEN pd
    ELSE [pd EXCEPT ![file_id] = update_stage_data(pd[file_id], stage, message, progress)]

\* an event generator of GET /progress/{file_id} that has not been started
IdleStream ==
    [ pc |-> "idle",          \* "idle", "waiting" (on queue.get), "closed"
                              \* (after the break) or "cancelled"
      file_id |-> NoId,
      queue |-> <<>>,         \* its asyncio.Queue
      sent |-> <<>> ]         \* the events it has yielded

\* create_chunks has not been called directly
NoSplit == [pc |-> "idle"]

\* _notify_listeners: the entry of file_id, the dict itself and not a copy, is
\* put on the queue of every listener of file_id (the queues are unbounded, so
\* put_nowait does not raise and every listener stays registered); stage is
\* the value of current_stage when the entry was put
notify_listeners(st, ls, pd, file_id) ==
    IF file_id \notin DOMAIN ls \/ file_id \notin DOMAIN pd THEN st
    ELSE [q \in DOMAIN st |->
            IF q \in Range(ls[file_id])
            THEN [st[q] EXCEPT !.queue =
                     Append(@, [ref |-> file_id, stage |-> pd[file_id].current_stage])]
            ELSE st[q]]

\* the history of current_stage after a write to the entry of file_id in pd
Logged(log, pd, file_id) ==
    IF file_id \notin DOMAIN pd THEN log
    ELSE [k \in DOMAIN log \cup {file_id} |->
            IF k = file_id
            THEN (IF k \in DOMAIN log THEN log[k] ELSE <<>>) \o <<pd[k].current_stage>>
            ELSE log[k]]

(***************************************************************************)
(* FileStorageService (local storage)                                      *)
(***************************************************************************)
\* save_file: a fresh file_id names the stored file and keys its metadata
save_file_info(file_id, filename) ==
    [ file_id |-> file_id,
      unique_filename |-> file_id,
      file_path |-> file_id,
      content_type |-> content_type_map(get_file_extension(filename)) ]

save_file_disk(dsk, file_id, content) ==
    [n \in DOMAIN dsk \cup {file_id} |-> IF n = file_id THEN content ELSE dsk[n]]

\* the metadata file rewritten with the new entry alone
add_file_metadata_alone(md, file_id, filename) ==
    [k \in {file_id} |-> [original_filename |-> filename, unique_filename |-> file_id]]

\* _add_file_metadata: load, set one key, save
add_file_metadata(md, file_id, filename) ==
    [k \in DOMAIN md \cup {file_id} |->
        IF k = file_id
        THEN [original_filename |-> filename, unique_filename |-> file_id]
        ELSE md[k]]

RemoveKey(f, k) == [x \in DOMAIN f \ {k} |-> f[x]]

\* _save_metadata (re)creates file_metadata.json; it runs whenever an entry is
\* added, and whenever an entry that exists is deleted
metadata_file_after(present, md, md1) == present \/ md1 # md

\* delete_file: with a metadata entry, remove the file it names and the entry;
\* without one, remove a file whose name starts with the id (legacy files)
storage_delete_file(dsk, md, file_id) ==
    IF file_id \in DOMAIN md
    THEN [ disk |-> RemoveKey(dsk, md[file_id].unique_filename),
           metadata |-> RemoveKey(md, file_id),
           result |-> TRUE ]
    ELSE IF file_id \in DOMAIN dsk
    THEN [ disk |-> RemoveKey(dsk, file_id), metadata |-> md, result |-> TRUE ]
    ELSE [ disk |-> dsk, metadata |-> md, result |-> FALSE ]

(***************************************************************************)
(* DocumentProcessor: extraction, chunking, embedding, indexing            *)
(***************************************************************************)
\* extract_text: TextLoader gives one document without a page, PyPDFLoader one
\* document per page carrying its 0-based page number
extract_text(content, content_type) ==
    IF content_type = "application/pdf"
    THEN [i \in DOMAIN content |-> [page_content |-> content[i], page |-> i - 1]]
    ELSE <<[page_content |-> content[1], page |-> Absent]>>

\* the constructor of the splitter raises ValueError when chunk_overlap is
\* larger than chunk_size (an overlap equal to chunk_size is accepted)
splitter_rejects(chunk_size, overlap) == overlap > chunk_size

\* the characters of a full window that open the next one: the merge loop pops
\* until at most overlap are left and the next character fits
kept_overlap(chunk_size, overlap) ==
    IF overlap < chunk_size THEN overlap ELSE chunk_size - 1

\* RecursiveCharacterTextSplitter on a text of L characters: windows of at most
\* chunk_size characters, each starting chunk_size - overlap after the previous
RECURSIVE SplitFrom(_, _, _, _)
SplitFrom(start, L, chunk_size, overlap) ==
    IF start + chunk_size >= L
    THEN <<[start |-> start, len |-> L - start]>>
    ELSE <<[start |-> start, len |-> chunk_size]>>
         \o SplitFrom(start + chunk_size - kept_overlap(chunk_size, overlap),
                      L, chunk_size, overlap)

split_text(L, chunk_size, overlap) ==
    IF L = 0 THEN <<>> ELSE SplitFrom(0, L, chunk_size, overlap)

\* Python's  x or default
PyOr(x, default) == IF x = Absent \/ x = 0 THEN default ELSE x

\* chunk ids numbered from the position in the segment
chunks_of_document_numbered(doc, doc_index, doc_id, doc_name, chunk_size, overlap, uuid0) ==
    LET pieces == split_text(doc.page_content, chunk_size, overlap)
    IN  [i \in DOMAIN pieces |->
            [ page_content |-> pieces[i].len,
              start |-> pieces[i].start,
              metadata |->
                [ doc_id |-> doc_id,
                  doc_name |-> doc_name,
                  page |-> IF doc.page # Absent THEN doc.page ELSE doc_index + 1,
                  chunk_id |-> i - 1,
                  chunk_index |-> i - 1,
                  total_chunks_in_doc |-> Len(pieces),
                  chunk_size |-> chunk_size,
                  chunk_overlap |-> overlap ] ]]

\* the chunks of one document of the list, with their metadata; uuid0 is the
\* value of the uuid counter before the first chunk
chunks_of_document(doc, doc_index, doc_id, doc_name, chunk_size, overlap, uuid0) ==
    LET pieces == split_text(doc.page_content, chunk_size, overlap)
    IN  [i \in DOMAIN pieces |->
            [ page_content |-> pieces[i].len,
              start |-> pieces[i].start,
              metadata |->
                [ doc_id |-> doc_id,
                  doc_name |-> doc_name,
                  page |-> IF doc.page # Absent THEN doc.page ELSE doc_index + 1,
                  chunk_id |-> uuid0 + i - 1,
                  chunk_index |-> i - 1,
                  total_chunks_in_doc |-> Len(pieces),
                  chunk_size |-> chunk_size,
                  chunk_overlap |-> overlap ] ]]

RECURSIVE ChunksFrom(_, _, _, _, _, _, _)
ChunksFrom(documents, k, doc_id, doc_name, chunk_size, overlap, uuid0) ==
    IF k > Len(documents) THEN <<>>
    ELSE LET mine == chunks_of_document(documents[k], k - 1, doc_id, doc_name,
                                        chunk_size, overlap, uuid0)
         IN  mine \o ChunksFrom(documents, k + 1, doc_id, doc_name,
                                chunk_size, overlap, uuid0 + Len(mine))

\* the documents joined into one text before splitting
RECURSIVE TotalLength(_)
TotalLength(documents) ==
    IF documents = <<>> THEN 0
    ELSE Head(documents).page_content + TotalLength(Tail(documents))

create_chunks_joined(documents, doc_id, doc_name, chunk_size, overlap, uuid0) ==
    ChunksFrom(<<[page_content |-> TotalLength(documents), page |-> Absent]>>, 1,
               doc_id, doc_name,
               PyOr(chunk_size, CHUNK_SIZE), PyOr(overlap, CHUNK_OVERLAP), uuid0)

\* create_chunks(documents, doc_id, doc_name, chunk_size=None, overlap=None)
create_chunks(documents, doc_id, doc_name, chunk_size, overlap, uuid0) ==
    ChunksFrom(documents, 1, doc_id, doc_name,
               PyOr(chunk_size, CHUNK_SIZE), PyOr(overlap, CHUNK_OVERLAP), uuid0)

\* the embedding model: a function of the text alone
EmbeddingSpace == 4
embed_text(text_len) == (text_len \div 100) % EmbeddingSpace

embed_documents(chunks) == [i \in DOMAIN chunks |-> embed_text(chunks[i].page_content)]

\* the entries index_documents hands to collection.add
index_entries(file_id, chunks, embeddings) ==
    { [ id |-> <<file_id, i - 1, chunks[i].metadata.chunk_id>>,
        embedding |-> embeddings[i],
        document |-> chunks[i].page_content,
        metadata |-> chunks[i].metadata ]
      : i \in DOMAIN chunks \cap DOMAIN embeddings }   \* zip(chunks, embeddings)

\* index_documents without its length check
index_documents_never_rejects(chunks, embeddings) == FALSE

\* index_documents raises ValueError unless there is one embedding per chunk
index_documents_rejects(chunks, embeddings) == Len(chunks) # Len(embeddings)

\* the output dimensions of the embedding models the deployment can configure
Dimensions == {768, 1536}
DefaultDimension == 768
NoDimension == 0

\* collection.add raises when the vectors do not have the dimension the
\* collection has established
dimension_mismatch_ignored(established, dimension) == FALSE

dimension_mismatch(established, dimension) ==
    established # NoDimension /\ established # dimension

\* the dimension of the collection after a successful add
established_dimension(established, dimension) ==
    IF established = NoDimension THEN dimension ELSE established

\* str() of the exception index_documents raises for a dimension mismatch
dimension_error ==
    <<"Document indexing failed: ", "Embedding dimension mismatch: ",
      "expecting embedding with dimension",
      ". Please reset the database to use the new embedding model">>

\* a reset that leaves the entries in place
reset_database_keeps(coll) == coll

\* ChromaDBService.reset_database: the collection is deleted and recreated
reset_database(coll) == {}

(***************************************************************************)
(* Ingestion requests                                                      *)
(***************************************************************************)
NoFile == [filename |-> "", pages |-> <<>>]
NoFileInfo == [file_id |-> NoId, unique_filename |-> NoId, file_path |-> NoId,
               content_type |-> ""]
NoResponse == [status |-> "", detail |-> <<>>, file_id |-> NoId]

IdleRequest ==
    [ route |-> "",            \* "upload_file" or "process_document"
      pc |-> "idle",
      file |-> NoFile,         \* the UploadFile
      file_id |-> NoId,        \* upload_file's id for progress tracking
      saved_id |-> NoId,       \* the id save_file stored the file under
      file_info |-> NoFileInfo,
      documents |-> <<>>,
      chunks |-> <<>>,
      embeddings |-> <<>>,
      failed_stage |-> "",     \* the stage whose exception ended the pipeline
      cause |-> <<>>,          \* str() of that exception
      response |-> NoResponse ]

Raise(r, stage, message) ==
    [req[r] EXCEPT !.pc = "raised", !.failed_stage = stage, !.cause = message]

\* a call of a collaborator returns, or raises where the environment may fail
Outcomes == IF env.faulty THEN {"ok", "fail"} ELSE {"ok"}

\* the operations request r invoked, extended by ops
Called(r, ops) == [calls EXCEPT ![r] = @ \o ops]

\* request slots are interchangeable: they are taken in order
SlotFree(r) == \A q \in Reqs : q < r => req[q].pc # "idle"

\* upload_file up to the first await of process_document_with_progress:
\* validation, a fresh file_id, start_processing, update_stage(UPLOADING)
UploadStart(r) ==
    /\ running = 0
    /\ req[r].pc = "idle"
    /\ SlotFree(r)
    /\ env.requests > 0
    /\ env' = [env EXCEPT !.requests = @ - 1]
    /\ \E f \in Uploadable :
        LET file_id == next_uuid
            started == [k \in DOMAIN progress_data \cup {file_id} |->
                          IF k = file_id
                          THEN start_processing_data(file_id, f.filename)
                          ELSE progress_data[k]]
            log0 == Logged(stage_log, started, file_id)
        IN  /\ next_uuid' = next_uuid + 1
            /\ progress_data' = update_stage(started, file_id, "uploading", <<>>, Absent)
            /\ stage_log' = Logged(log0, progress_data', file_id)
            /\ streams' = notify_listeners(
                              notify_listeners(streams, listeners, started, file_id),
                              listeners, progress_data', file_id)
            /\ req' = [req EXCEPT ![r] = [IdleRequest EXCEPT
                          !.route = "upload_file", !.pc = "reading",
                          !.file = f, !.file_id = file_id]]
    /\ UNCHANGED <<disk, metadata, collection, running, resets, qa, calls, del_resp, store_log, listeners, splitter, fs_log, metadata_file, dimensionality, wiped>>

\* upload_file rejects a file of a type that is not allowed, or an empty file,
\* before any processing starts
UploadReject(r) ==
    /\ running = 0
    /\ req[r].pc = "idle"
    /\ SlotFree(r)
    /\ env.requests > 0
    /\ env' = [env EXCEPT !.requests = @ - 1]
    /\ \E detail \in {<<"File type not allowed">>, <<"File is empty">>} :
        req' = [req EXCEPT ![r] = [IdleRequest EXCEPT
                    !.route = "upload_file", !.pc = "done",
                    !.response = [status |-> "400", detail |-> detail,
                                  file_id |-> NoId]]]
    /\ UNCHANGED <<next_uuid, disk, metadata, collection, progress_data,
                   stage_log, running, resets, qa, calls, del_resp, store_log, listeners, streams, splitter, fs_log, metadata_file, dimensionality, wiped>>

\* process_document_with_progress, step 1: save_file, the file_id override and
\* update_stage(EXTRACTING)
UploadSave(r) ==
    /\ running = 0
    /\ req[r].route = "upload_file"
    /\ req[r].pc = "reading"
    /\ running' = r
    /\ calls' = Called(r, <<"save_file">>)
    /\ \E outcome \in Outcomes :
        IF outcome = "ok"
        THEN LET saved == next_uuid
                 info == save_file_info(saved, req[r].file.filename)
             IN  /\ next_uuid' = next_uuid + 1
                 /\ disk' = save_file_disk(disk, saved, req[r].file.pages)
                 /\ metadata' = add_file_metadata(metadata, saved, req[r].file.filename)
                 /\ progress_data' = update_stage(progress_data, req[r].file_id,
                                                  "extracting", <<>>, Absent)
                 /\ stage_log' = Logged(stage_log, progress_data', req[r].file_id)
                 /\ streams' = notify_listeners(streams, listeners, progress_data',
                                                req[r].file_id)
                 /\ req' = [req EXCEPT ![r] = [@ EXCEPT
                               !.pc = "extracting",
                               !.saved_id = saved,
                               !.file_info = [info EXCEPT !.file_id = req[r].file_id]]]
        ELSE /\ req' = [req EXCEPT ![r] = Raise(r, "uploading", <<"save_error">>)]
             /\ UNCHANGED <<next_uuid, disk, metadata, progress_data, stage_log, streams>>
    /\ metadata_file' = metadata_file_after(metadata_file, metadata, metadata')
    /\ UNCHANGED <<collection, resets, qa, env, del_resp, store_log, listeners, splitter, fs_log, dimensionality, wiped>>

\* step 2: extract_text, then update_stage(CHUNKING)
UploadExtract(r) ==
    /\ running = r
    /\ req[r].route = "upload_file"
    /\ req[r].pc = "extracting"
    /\ calls' = Called(r, <<"extract_text">>)
    /\ \E outcome \in Outcomes :
        IF outcome = "ok" /\ req[r].file_info.file_path \in DOMAIN disk
        THEN /\ req' = [req EXCEPT ![r] = [@ EXCEPT
                           !.pc = "chunking",
                           !.documents = extract_text(disk[req[r].file_info.file_path],
                                                      req[r].file_info.content_type)]]
             /\ progress_data' = update_stage(progress_data, req[r].file_id,
                                              "chunking", <<>>, Absent)
             /\ stage_log' = Logged(stage_log, progress_data', req[r].file_id)
             /\ streams' = notify_listeners(streams, listeners, progress_data',
                                            req[r].file_id)
        ELSE /\ req' = [req EXCEPT ![r] = Raise(r, "extracting", <<"extract_error">>)]
             /\ UNCHANGED <<progress_data, stage_log, streams>>
    /\ UNCHANGED <<next_uuid, disk, metadata, collection, running, resets, qa, env, del_resp, store_log, listeners, splitter, fs_log, metadata_file, dimensionality, wiped>>

\* step 3: create_chunks, update_stage(EMBEDDING), and generate_embeddings up to
\* its await of the executor
UploadChunk(r) ==
    /\ running = r
    /\ req[r].route = "upload_file"
    /\ req[r].pc = "chunking"
    /\ calls' = Called(r, <<"create_chunks", "generate_embeddings">>)
    /\ LET chunks == create_chunks(req[r].documents, req[r].file_info.file_id,
                                   req[r].file.filename, Absent, Absent, next_uuid)
       IN  /\ req' = [req EXCEPT ![r] = [@ EXCEPT !.pc = "embedding", !.chunks = chunks]]
           /\ next_uuid' = next_uuid + Len(chunks)
    /\ progress_data' = update_stage(progress_data, req[r].file_id, "embedding", <<>>, Absent)
    /\ stage_log' = Logged(stage_log, progress_data', req[r].file_id)
    /\ streams' = notify_listeners(streams, listeners, progress_data', req[r].file_id)
    /\ running' = 0
    /\ UNCHANGED <<disk, metadata, collection, resets, qa, env, del_resp, store_log, listeners, splitter, fs_log, metadata_file, dimensionality, wiped>>

\* what the embedding provider hands back: one vector per text, an exception,
\* or a list that is one vector short
EmbedOutcomes == IF env.faulty THEN {"ok", "fail", "short"} ELSE {"ok"}

embeddings_returned(chunks, outcome) ==
    IF outcome = "short" /\ Len(chunks) > 0
    THEN SubSeq(embed_documents(chunks), 1, Len(chunks) - 1)
    ELSE embed_documents(chunks)

\* step 4: generate_embeddings returns or raises, then update_stage(INDEXING)
UploadEmbed(r) ==
    /\ running = 0
    /\ req[r].route = "upload_file"
    /\ req[r].pc = "embedding"
    /\ running' = r
    /\ \E outcome \in EmbedOutcomes :
        IF outcome = "fail"
        THEN /\ req' = [req EXCEPT ![r] = Raise(r, "embedding",
                            <<"Failed to generate embeddings: ", "embed_error">>)]
             /\ UNCHANGED <<progress_data, stage_log, streams>>
        ELSE /\ req' = [req EXCEPT ![r] = [@ EXCEPT
                           !.pc = "indexing",
                           !.embeddings = embeddings_returned(req[r].chunks, outcome)]]
             /\ progress_data' = update_stage(progress_data, req[r].file_id,
                                              "indexing", <<>>, Absent)
             /\ stage_log' = Logged(stage_log, progress_data', req[r].file_id)
             /\ streams' = notify_listeners(streams, listeners, progress_data',
                                            req[r].file_id)
    /\ UNCHANGED <<next_uuid, disk, metadata, collection, resets, qa, env, calls, del_resp, store_log, listeners, splitter, fs_log, metadata_file, dimensionality, wiped>>

\* str() of the exception index_document raises
index_error(reason) ==
    <<"Document indexing failed: ", "ChromaDB indexing failed: ", reason>>

\* step 5 with one insert per chunk
UploadIndexPerChunk(r) ==
    /\ running = r
    /\ req[r].route = "upload_file"
    /\ req[r].pc = "indexing"
    /\ calls' = Called(r, <<"index_document">>
                          \o [i \in DOMAIN req[r].chunks |-> "collection.add"])
    /\ req' = [req EXCEPT ![r].pc = "indexed"]
    /\ collection' = collection \cup
           index_entries(req[r].file_info.file_id, req[r].chunks, req[r].embeddings)
    /\ dimensionality' = established_dimension(dimensionality, env.dimension)
    /\ UNCHANGED <<next_uuid, disk, metadata, progress_data, stage_log, running,
                   resets, qa, env, del_resp, store_log, listeners, streams, splitter,
                   fs_log, metadata_file, wiped>>

\* step 5: index_document
UploadIndex(r) ==
    /\ running = r
    /\ req[r].route = "upload_file"
    /\ req[r].pc = "indexing"
    /\ calls' = Called(r, IF index_documents_rejects(req[r].chunks, req[r].embeddings)
                           THEN <<"index_document">>
                           ELSE <<"index_document", "collection.add">>)
    /\ \E outcome \in Outcomes :
        IF index_documents_rejects(req[r].chunks, req[r].embeddings)
        THEN /\ req' = [req EXCEPT ![r] = Raise(r, "indexing",
                            index_error("Number of chunks and embeddings must match"))]
             /\ UNCHANGED <<collection, dimensionality>>
        ELSE IF dimension_mismatch(dimensionality, env.dimension)
        THEN /\ req' = [req EXCEPT ![r] = Raise(r, "indexing", dimension_error)]
             /\ UNCHANGED <<collection, dimensionality>>
        ELSE IF outcome = "fail"
        THEN /\ req' = [req EXCEPT ![r] = Raise(r, "indexing", index_error("chroma_error"))]
             /\ UNCHANGED <<collection, dimensionality>>
        ELSE /\ req' = [req EXCEPT ![r].pc = "indexed"]
             /\ collection' = collection \cup
                    index_entries(req[r].file_info.file_id, req[r].chunks,
                                  req[r].embeddings)
             /\ dimensionality' = established_dimension(dimensionality, env.dimension)
    /\ UNCHANGED <<next_uuid, disk, metadata, progress_data, stage_log, running,
                   resets, qa, env, del_resp, store_log, listeners, streams, splitter,
                   fs_log, metadata_file, wiped>>

\* upload_file after the pipeline returned: the response and complete_processing
UploadComplete(r) ==
    /\ running = r
    /\ req[r].route = "upload_file"
    /\ req[r].pc = "indexed"
    /\ req' = [req EXCEPT ![r] = [@ EXCEPT
                  !.pc = "done",
                  !.response = [status |-> "201", detail |-> <<"processed">>,
                                file_id |-> req[r].file_info.file_id]]]
    /\ progress_data' = update_stage(progress_data, req[r].file_id, "completed",
                                     <<"Document processed successfully">>, 100)
    /\ stage_log' = Logged(stage_log, progress_data', req[r].file_id)
    /\ streams' = notify_listeners(streams, listeners, progress_data', req[r].file_id)
    /\ running' = 0
    /\ UNCHANGED <<next_uuid, disk, metadata, collection, resets, qa, env, calls, del_resp, store_log, listeners, splitter, fs_log, metadata_file, dimensionality, wiped>>

\* the detail of the HTTP 500 upload_file answers with when processing raised:
\* fail_processing runs inside the inner handler, and an exception it raises is
\* caught by the outer  except Exception
upload_error_detail(cause, tracker_raises) ==
    IF tracker_raises
    THEN <<"Internal server error during file upload: ", "'failed'">>
    ELSE <<"File uploaded but processing failed: ">> \o cause

\* upload_file's exception handlers: fail_processing, then HTTP 500
UploadFail(r) ==
    /\ running = r
    /\ req[r].route = "upload_file"
    /\ req[r].pc = "raised"
    /\ req' = [req EXCEPT ![r] = [@ EXCEPT
                  !.pc = "done",
                  !.response = [status |-> "500",
                                detail |-> upload_error_detail(req[r].cause,
                                               update_stage_raises("failed")),
                                file_id |-> NoId]]]
    /\ progress_data' = update_stage(progress_data, req[r].file_id, "failed",
                                     <<"Processing failed: ">> \o req[r].cause, 0)
    /\ stage_log' = Logged(stage_log, progress_data', req[r].file_id)
    /\ streams' = IF update_stage_raises("failed") THEN streams
                  ELSE notify_listeners(streams, listeners, progress_data',
                                        req[r].file_id)
    /\ running' = 0
    /\ UNCHANGED <<next_uuid, disk, metadata, collection, resets, qa, env, calls, del_resp, store_log, listeners, splitter, fs_log, metadata_file, dimensionality, wiped>>

\* DocumentProcessor.process_document up to its first await (file.read())
PDStart(r) ==
    /\ running = 0
    /\ req[r].pc = "idle"
    /\ SlotFree(r)
    /\ env.requests > 0
    /\ env' = [env EXCEPT !.requests = @ - 1]
    /\ \E f \in Uploadable :
        req' = [req EXCEPT ![r] = [IdleRequest EXCEPT
                    !.route = "process_document", !.pc = "reading", !.file = f]]
    /\ UNCHANGED <<next_uuid, disk, metadata, collection, progress_data, stage_log,
                   running, resets, qa, calls, del_resp, store_log, listeners, streams, splitter, fs_log, metadata_file, dimensionality, wiped>>

\* process_document's handler: delete the uploaded file when file_info is bound,
\* then re-raise
pd_cleanup(dsk, md, file_info_bound, file_id) ==
    IF file_info_bound
    THEN storage_delete_file(dsk, md, file_id)
    ELSE [disk |-> dsk, metadata |-> md, result |-> FALSE]

PDRaised(r, stage, message) ==
    [req[r] EXCEPT !.pc = "done", !.failed_stage = stage, !.cause = message,
                   !.response = [status |-> "raised", detail |-> message,
                                 file_id |-> NoId]]

\* process_document from save_file to the await inside generate_embeddings
PDSaveToEmbed(r) ==
    /\ running = 0
    /\ req[r].route = "process_document"
    /\ req[r].pc = "reading"
    /\ \E save_outcome \in Outcomes, extract_outcome \in Outcomes :
        LET saved == next_uuid
            info == save_file_info(saved, req[r].file.filename)
            disk1 == save_file_disk(disk, saved, req[r].file.pages)
            md1 == add_file_metadata(metadata, saved, req[r].file.filename)
            documents == extract_text(req[r].file.pages, info.content_type)
            chunks == create_chunks(documents, info.file_id, req[r].file.filename,
                                    Absent, Absent, next_uuid + 1)
        IN  IF save_outcome = "fail"
            THEN LET c == pd_cleanup(disk, metadata, FALSE, NoId)
                 IN  /\ req' = [req EXCEPT ![r] = PDRaised(r, "uploading", <<"save_error">>)]
                     /\ disk' = c.disk
                     /\ metadata' = c.metadata
                     /\ UNCHANGED next_uuid
                     /\ calls' = Called(r, <<"save_file">>)
            ELSE IF extract_outcome = "fail"
            THEN LET c == pd_cleanup(disk1, md1, TRUE, info.file_id)
                 IN  /\ req' = [req EXCEPT ![r] = [PDRaised(r, "extracting", <<"extract_error">>)
                                   EXCEPT !.saved_id = saved, !.file_info = info]]
                     /\ disk' = c.disk
                     /\ metadata' = c.metadata
                     /\ next_uuid' = next_uuid + 1
                     /\ calls' = Called(r, <<"save_file", "extract_text">>)
            ELSE /\ req' = [req EXCEPT ![r] = [@ EXCEPT
                               !.pc = "embedding", !.saved_id = saved, !.file_info = info,
                               !.documents = documents, !.chunks = chunks]]
                 /\ disk' = disk1
                 /\ metadata' = md1
                 /\ next_uuid' = next_uuid + 1 + Len(chunks)
                 /\ calls' = Called(r, <<"save_file", "extract_text", "create_chunks",
                                         "generate_embeddings">>)
    /\ metadata_file' = metadata_file_after(metadata_file, metadata, metadata')
    /\ UNCHANGED <<collection, progress_data, stage_log, running, resets, qa, env, del_resp, store_log, listeners, streams, splitter, fs_log, dimensionality, wiped>>

\* process_document from the return of the executor to its end
PDEmbedToEnd(r) ==
    /\ running = 0
    /\ req[r].route = "process_document"
    /\ req[r].pc = "embedding"
    /\ \E embed_outcome \in EmbedOutcomes, index_outcome \in Outcomes :
        LET embeddings == embeddings_returned(req[r].chunks, embed_outcome)
            c == pd_cleanup(disk, metadata, TRUE, req[r].file_info.file_id)
        IN  IF embed_outcome = "fail"
            THEN /\ req' = [req EXCEPT ![r] = PDRaised(r, "embedding",
                                <<"Failed to generate embeddings: ", "embed_error">>)]
                 /\ disk' = c.disk
                 /\ metadata' = c.metadata
                 /\ UNCHANGED <<collection, dimensionality, calls>>
            ELSE IF index_documents_rejects(req[r].chunks, embeddings)
            THEN /\ req' = [req EXCEPT ![r] = [PDRaised(r, "indexing",
                                index_error("Number of chunks and embeddings must match"))
                                EXCEPT !.embeddings = embeddings]]
                 /\ disk' = c.disk
                 /\ metadata' = c.metadata
                 /\ calls' = Called(r, <<"index_document">>)
                 /\ UNCHANGED <<collection, dimensionality>>
            ELSE IF dimension_mismatch(dimensionality, env.dimension)
            THEN /\ req' = [req EXCEPT ![r] = [PDRaised(r, "indexing", dimension_error)
                                EXCEPT !.embeddings = embeddings]]
                 /\ disk' = c.disk
                 /\ metadata' = c.metadata
                 /\ calls' = Called(r, <<"index_document", "collection.add">>)
                 /\ UNCHANGED <<collection, dimensionality>>
            ELSE IF index_outcome = "fail"
            THEN /\ req' = [req EXCEPT ![r] = [PDRaised(r, "indexing",
                                index_error("chroma_error"))
                                EXCEPT !.embeddings = embeddings]]
                 /\ disk' = c.disk
                 /\ metadata' = c.metadata
                 /\ calls' = Called(r, <<"index_document", "collection.add">>)
                 /\ UNCHANGED <<collection, dimensionality>>
            ELSE /\ req' = [req EXCEPT ![r] = [@ EXCEPT
                               !.pc = "done", !.embeddings = embeddings,
                               !.response = [status |-> "completed",
                                             detail |-> <<"completed">>,
                                             file_id |-> req[r].file_info.file_id]]]
                 /\ collection' = collection \cup
                        index_entries(req[r].file_info.file_id, req[r].chunks, embeddings)
                 /\ calls' = Called(r, <<"index_document", "collection.add">>)
                 /\ dimensionality' = established_dimension(dimensionality, env.dimension)
                 /\ UNCHANGED <<disk, metadata>>
    /\ metadata_file' = metadata_file_after(metadata_file, metadata, metadata')
    /\ UNCHANGED <<next_uuid, progress_data, stage_log, running, resets, qa, env, del_resp,
                   store_log, listeners, streams, splitter, fs_log, wiped>>

\* DocumentProcessor.reset_application_data: reset_database, then the upload
\* directory (files and file_metadata.json) is removed and recreated empty
ResetApplication ==
    /\ running = 0
    /\ resets < MaxResets
    /\ collection' = reset_database(collection)
    /\ disk' = <<>>
    /\ metadata' = <<>>
    /\ metadata_file' = FALSE
    /\ resets' = resets + 1
    /\ calls' = [r \in Reqs |-> IF req[r].pc \in {"idle", "done"}
                                THEN calls[r] ELSE calls[r] \o <<"reset">>]
    /\ dimensionality' = NoDimension
    /\ wiped' = wiped \cup {e.id : e \in collection}
    /\ UNCHANGED <<next_uuid, progress_data, stage_log, req, running, qa, env, del_resp,
                   store_log, listeners, streams, splitter, fs_log>>

\* the server restarted with another embedding model configured: the model is
\* built from settings.EMBEDDING_MODEL, the collection persists on disk, the
\* tracker's state lives in memory and is lost
SwitchEmbeddingModel ==
    /\ running = 0
    /\ \A r \in Reqs : req[r].pc \in {"idle", "done"}
    /\ \A q \in Streams : streams[q].pc # "waiting"
    /\ \E d \in Dimensions \ {env.dimension} : env' = [env EXCEPT !.dimension = d]
    /\ progress_data' = <<>>
    /\ UNCHANGED <<next_uuid, disk, metadata, collection, stage_log, req, running,
                   resets, qa, calls, del_resp, store_log, listeners, streams,
                   splitter, fs_log, metadata_file, dimensionality, wiped>>

(***************************************************************************)
(* DELETE /delete/{file_id}                                                *)
(***************************************************************************)
\* str(uuid.uuid4()): the text of an id
uuid_str(n) == <<ToString(n), "-uuid4">>

\* unique_filename = f"{file_id}{file_extension}"
unique_filename(n) == uuid_str(n) \o <<".ext">>

\* filename.startswith(file_id)
starts_with(filename, prefix) ==
    /\ Len(prefix) <= Len(filename)
    /\ SubSeq(filename, 1, Len(prefix)) = prefix

\* the name of the metadata file, which lives in UPLOAD_DIR with the uploads
metadata_filename == <<"file_metadata", ".json">>

\* the entry of the metadata file in a listing of UPLOAD_DIR (an upload is
\* listed by the number of its id)
METADATA_FILE == -2

\* the ids a client can put in the path: an id handed out so far, in full or
\* cut short, and the name of the metadata file
PathParams ==
    UNION { {uuid_str(n), <<ToString(n)>>} : n \in 1..(next_uuid - 1) }
        \cup {metadata_filename}

\* ChromaDBService defines delete_documents_by_file_id, and no delete_document
has_delete_document == FALSE

\* await vector_store.delete_document(file_id) inside try / except Exception:
\* without the method the call raises AttributeError, which is logged
vector_store_cleanup(coll, file_id) ==
    IF has_delete_document
    THEN {e \in coll : uuid_str(e.metadata.doc_id) # file_id}
    ELSE coll

NoDelete == [calls |-> 0, file_id |-> <<>>, status |-> "", filename |-> NoId,
             remaining |-> 0]

\* delete_file: remove the first listed file of UPLOAD_DIR whose name starts
\* with file_id (os.listdir gives no order, and the listing holds the metadata
\* file too), 404 when there is none; then the vector store cleanup; then
\* "deleted".  Without its file the metadata is read as empty.
DeleteEndpoint ==
    /\ running = 0
    /\ del_resp.calls < MaxDeletes
    /\ \E file_id \in PathParams :
        LET listdir == DOMAIN disk \cup (IF metadata_file THEN {METADATA_FILE} ELSE {})
            name(n) == IF n = METADATA_FILE THEN metadata_filename
                       ELSE unique_filename(n)
            found == {n \in listdir : starts_with(name(n), file_id)}
        IN  IF found = {}
            THEN /\ del_resp' = [NoDelete EXCEPT !.calls = del_resp.calls + 1,
                                                 !.status = "404"]
                 /\ UNCHANGED <<disk, metadata, metadata_file, collection>>
            ELSE \E n \in found :
                 /\ disk' = IF n = METADATA_FILE THEN disk ELSE RemoveKey(disk, n)
                 /\ metadata' = IF n = METADATA_FILE THEN <<>> ELSE metadata
                 /\ metadata_file' = (metadata_file /\ n # METADATA_FILE)
                 /\ collection' = vector_store_cleanup(collection, file_id)
                 /\ del_resp' =
                      [ calls |-> del_resp.calls + 1,
                        file_id |-> file_id,
                        status |-> "deleted",
                        filename |-> n,
                        remaining |-> Cardinality({e \in collection' :
                                         uuid_str(e.metadata.doc_id) = file_id}) ]
    /\ UNCHANGED <<next_uuid, progress_data, stage_log, req, running, resets, qa, env,
                   calls, store_log, listeners, streams, splitter, fs_log,
                   dimensionality, wiped>>

(***************************************************************************)
(* GET /progress/{file_id}: the event generator of one stream              *)
(***************************************************************************)
\* add_listener: the queue joins the list of file_id
add_listener(ls, file_id, q) ==
    [k \in DOMAIN ls \cup {file_id} |->
        IF k = file_id
        THEN (IF k \in DOMAIN ls THEN Append(ls[k], q) ELSE <<q>>)
        ELSE ls[k]]

\* remove_listener: the queue leaves the list, and an empty list is deleted
remove_listener(ls, file_id, q) ==
    IF file_id \notin DOMAIN ls \/ q \notin Range(ls[file_id]) THEN ls
    ELSE LET rest == SelectSeq(ls[file_id], LAMBDA x : x # q)
         IN  IF rest = <<>>
             THEN [k \in DOMAIN ls \ {file_id} |-> ls[k]]
             ELSE [ls EXCEPT ![file_id] = rest]

\* the stages after which the generator stops
terminal_stages == {"completed", "failed"}

\* a progress event carries the entry as it is when it is serialised
progress_event(pd, file_id) ==
    [event |-> "progress", stage |-> pd[file_id].current_stage]

keepalive_event == [event |-> "keepalive", stage |-> ""]

\* the generator up to its first queue.get(): a queue, add_listener, and the
\* initial progress if the file is tracked
ProgressOpen(q) ==
    /\ running = 0
    /\ streams[q].pc = "idle"
    /\ \A p \in Streams : p < q => streams[p].pc # "idle"
    /\ \E file_id \in 1..(next_uuid - 1) :
        /\ listeners' = add_listener(listeners, file_id, q)
        /\ streams' = [streams EXCEPT ![q] =
                          [ pc |-> "waiting", file_id |-> file_id, queue |-> <<>>,
                            sent |-> IF file_id \in DOMAIN progress_data
                                     THEN <<progress_event(progress_data, file_id)>>
                                     ELSE <<>> ]]
    /\ UNCHANGED <<next_uuid, disk, metadata, collection, progress_data, stage_log, req,
                   running, resets, qa, env, calls, del_resp, store_log, splitter,
                   fs_log, metadata_file, dimensionality, wiped>>

\* queue.get() returns an entry: it is sent, and the generator stops when the
\* entry's current_stage is completed or failed at that moment
ProgressGet(q) ==
    /\ running = 0
    /\ streams[q].pc = "waiting"
    /\ streams[q].queue # <<>>
    /\ LET file_id == Head(streams[q].queue).ref
           ends == progress_data[file_id].current_stage \in terminal_stages
       IN  /\ streams' = [streams EXCEPT ![q] = [@ EXCEPT
                              !.pc = IF ends THEN "closed" ELSE "waiting",
                              !.queue = Tail(@),
                              !.sent = Append(@, progress_event(progress_data, file_id))]]
           /\ listeners' = IF ends THEN remove_listener(listeners, streams[q].file_id, q)
                           ELSE listeners
    /\ UNCHANGED <<next_uuid, disk, metadata, collection, progress_data, stage_log, req,
                   running, resets, qa, env, calls, del_resp, store_log, splitter,
                   fs_log, metadata_file, dimensionality, wiped>>

\* the keepalive events stream q has sent
Keepalives(q) == Len(SelectSeq(streams[q].sent, LAMBDA e : e.event = "keepalive"))

\* queue.get() times out after 30 seconds: a keepalive, and the wait goes on
\* (the first MaxKeepalives are recorded; a later one changes nothing, so a
\* generator that only times out from then on is a behaviour that stutters)
ProgressKeepalive(q) ==
    /\ running = 0
    /\ streams[q].pc = "waiting"
    /\ streams[q].queue = <<>>
    /\ Keepalives(q) < MaxKeepalives
    /\ streams' = [streams EXCEPT ![q] = [@ EXCEPT !.sent = Append(@, keepalive_event)]]
    /\ UNCHANGED <<next_uuid, disk, metadata, collection, progress_data, stage_log, req,
                   running, resets, qa, env, calls, del_resp, store_log, listeners,
                   splitter, fs_log, metadata_file, dimensionality, wiped>>

\* the client disconnects: CancelledError, and finally remove_listener
ProgressCancel(q) ==
    /\ running = 0
    /\ streams[q].pc = "waiting"
    /\ streams' = [streams EXCEPT ![q] = [@ EXCEPT !.pc = "cancelled"]]
    /\ listeners' = remove_listener(listeners, streams[q].file_id, q)
    /\ UNCHANGED <<next_uuid, disk, metadata, collection, progress_data, stage_log, req,
                   running, resets, qa, env, calls, del_resp, store_log, splitter,
                   fs_log, metadata_file, dimensionality, wiped>>

(***************************************************************************)
(* FileStorageService called directly, with the ids a caller can pass      *)
(***************************************************************************)
\* delete_file(file_id): with a metadata entry, the file it names and the entry
\* are removed; without one, the first listed file whose name starts with
\* file_id is removed (os.listdir gives no order; the metadata file is skipped)
delete_file_outcomes(dsk, md, file_id) ==
    IF \E n \in DOMAIN md : uuid_str(n) = file_id
    THEN {storage_delete_file(dsk, md, CHOOSE n \in DOMAIN md : uuid_str(n) = file_id)}
    ELSE LET found == {n \in DOMAIN dsk : starts_with(unique_filename(n), file_id)}
         IN  IF found = {}
             THEN {[disk |-> dsk, metadata |-> md, result |-> FALSE]}
             ELSE {[disk |-> RemoveKey(dsk, n), metadata |-> md, result |-> TRUE]
                   : n \in found}

\* get_file_content(file_id): the bytes of the file the metadata entry names;
\* FileNotFoundError without an entry or without the file
get_file_content(dsk, md, file_id) ==
    IF \E n \in DOMAIN md : uuid_str(n) = file_id /\ md[n].unique_filename \in DOMAIN dsk
    THEN LET n == CHOOSE k \in DOMAIN md : uuid_str(k) = file_id
         IN  [result |-> "bytes", content |-> dsk[md[n].unique_filename]]
    ELSE [result |-> "FileNotFoundError", content |-> <<>>]

\* a call of the storage service with the state before and after it
Stored(op, file_id, result, content, dsk, md) ==
    Append(fs_log, [ op |-> op, file_id |-> file_id, result |-> result,
                     content |-> content,
                     before |-> [disk |-> disk, metadata |-> metadata],
                     after |-> [disk |-> dsk, metadata |-> md] ])

StorageSave ==
    /\ Len(fs_log) < MaxStorageCalls
    /\ \E f \in Uploadable :
        /\ disk' = save_file_disk(disk, next_uuid, f.pages)
        /\ metadata' = add_file_metadata(metadata, next_uuid, f.filename)
        /\ fs_log' = Stored("save_file", uuid_str(next_uuid), "saved", f.pages,
                            save_file_disk(disk, next_uuid, f.pages),
                            add_file_metadata(metadata, next_uuid, f.filename))
    /\ next_uuid' = next_uuid + 1
    /\ metadata_file' = metadata_file_after(metadata_file, metadata, metadata')
    /\ UNCHANGED <<collection, progress_data, stage_log, req, running, resets, qa, env,
                   calls, del_resp, store_log, listeners, streams, splitter,
                   dimensionality, wiped>>

StorageDelete ==
    /\ Len(fs_log) < MaxStorageCalls
    /\ \E file_id \in PathParams :
        \E o \in delete_file_outcomes(disk, metadata, file_id) :
            /\ disk' = o.disk
            /\ metadata' = o.metadata
            /\ fs_log' = Stored("delete_file", file_id,
                                IF o.result THEN "True" ELSE "False", <<>>,
                                o.disk, o.metadata)
    /\ metadata_file' = metadata_file_after(metadata_file, metadata, metadata')
    /\ UNCHANGED <<next_uuid, collection, progress_data, stage_log, req, running, resets,
                   qa, env, calls, del_resp, store_log, listeners, streams, splitter,
                   dimensionality, wiped>>

StorageRead ==
    /\ Len(fs_log) < MaxStorageCalls
    /\ \E file_id \in PathParams :
        LET got == get_file_content(disk, metadata, file_id)
        IN  fs_log' = Stored("get_file_content", file_id, got.result, got.content,
                             disk, metadata)
    /\ UNCHANGED <<next_uuid, disk, metadata, metadata_file, collection, progress_data,
                   stage_log, req, running, resets, qa, env, calls, del_resp, store_log,
                   listeners, streams, splitter, dimensionality, wiped>>

(***************************************************************************)
(* create_chunks called directly, with the arguments a caller can pass     *)
(***************************************************************************)
\* chunk_size and overlap as passed (Absent: the argument is omitted)
ChunkSizes == {Absent, 150, 300, 900}
Overlaps == {Absent, 0, 100, 400, 900}

\* the extracted documents: up to MaxSegments segments, by length
SegmentLengths == {0, 100, 310, 430, 910}
SegmentLists == UNION { [1..n -> SegmentLengths] : n \in 1..MaxSegments }

SplitCalls ==
    { [ pc |-> "called", documents |-> d, chunk_size |-> cs, overlap |-> ov ]
      : d \in SegmentLists, cs \in ChunkSizes, ov \in Overlaps }

\* create_chunks(documents, doc_id, doc_name, chunk_size, overlap) returns its
\* chunks, or the ValueError of the splitter's constructor leaves it
CreateChunks ==
    /\ splitter.pc = "called"
    /\ LET documents == [i \in DOMAIN splitter.documents |->
                            [page_content |-> splitter.documents[i], page |-> Absent]]
           chunk_size == PyOr(splitter.chunk_size, CHUNK_SIZE)
           overlap == PyOr(splitter.overlap, CHUNK_OVERLAP)
       IN  IF splitter_rejects(chunk_size, overlap)
           THEN /\ splitter' = [ pc |-> "raised", call |-> splitter, chunks |-> <<>> ]
                /\ UNCHANGED next_uuid
           ELSE LET chunks == create_chunks(documents, next_uuid, "doc",
                                            splitter.chunk_size, splitter.overlap,
                                            next_uuid + 1)
                IN  /\ splitter' = [ pc |-> "returned", call |-> splitter,
                                     chunks |-> chunks ]
                    /\ next_uuid' = next_uuid + 1 + Len(chunks)
    /\ UNCHANGED <<disk, metadata, collection, progress_data, stage_log, req, running,
                   resets, qa, env, calls, del_resp, store_log, listeners, streams,
                   fs_log, metadata_file, dimensionality, wiped>>

(***************************************************************************)
(* Part II: the retriever                                                  *)
(***************************************************************************)
\* dict.get(key, default)
Get(d, key, default) == IF key \in DOMAIN d THEN d[key] ELSE default

\* the query run without its where clause
where_clause_dropped(coll, file_id) == coll

\* collection.query(where={"doc_id": file_id}) / where=None
where_clause(coll, file_id) ==
    IF file_id # NoId THEN {e \in coll : e.metadata.doc_id = file_id} ELSE coll

\* cosine distance between two embeddings (in abstract units)
Distance(q, e) == IF q >= e THEN q - e ELSE e - q

\* the possible answers of collection.query: the n_results nearest entries,
\* nearest first; entries at the same distance come in any order
RECURSIVE query(_, _, _)
query(entries, q, n_results) ==
    IF n_results = 0 \/ entries = {} THEN {<<>>}
    ELSE LET nearest == {e \in entries : \A o \in entries :
                            Distance(q, e.embedding) <= Distance(q, o.embedding)}
         IN  UNION { {<<e>> \o rest : rest \in query(entries \ {e}, q, n_results - 1)}
                     : e \in nearest }

\* _create_citation
create_citation(md) ==
    LET doc_name == Get(md, "doc_name", "Unknown Document")
        has_page == "page_number" \in DOMAIN md \/ "page" \in DOMAIN md
        page_num == Get(md, "page_number", Get(md, "page", Absent))
        has_index == "chunk_index" \in DOMAIN md
        has_chunk_id == "chunk_id" \in DOMAIN md
        \* truthiness of  metadata.get('chunk_index', metadata.get('chunk_id', ''))
        \* : an int is true unless it is 0, a uuid string is true, '' is false
        section_shown == IF has_index THEN md["chunk_index"] # 0 ELSE has_chunk_id
        section == IF has_index THEN md["chunk_index"] ELSE Get(md, "chunk_id", Absent)
    IN  <<doc_name>>
        \o (IF has_page THEN <<", Page ", ToString(page_num)>> ELSE <<>>)
        \o (IF section_shown THEN <<", Section ", ToString(section)>> ELSE <<>>)

\* the results formatted with 0-based ranks and the distance as the score
retrieved_unconverted(results, q) ==
    [i \in DOMAIN results |->
        [ content |-> results[i].document,
          metadata |-> results[i].metadata,
          similarity_score |-> Distance(q, results[i].embedding),
          rank |-> i - 1,
          citation |-> create_citation(results[i].metadata) ]]

\* retrieve_relevant_documents: format the search results
retrieved(results, q) ==
    [i \in DOMAIN results |->
        [ content |-> results[i].document,
          metadata |-> results[i].metadata,
          similarity_score |-> 1 - Distance(q, results[i].embedding),
          rank |-> i,
          citation |-> create_citation(results[i].metadata) ]]

\* citations = [doc["citation"] for doc in retrieved_docs]
citations_of(retrieved_docs) == [i \in DOMAIN retrieved_docs |-> retrieved_docs[i].citation]

\* the orders list(set(...)) can come out in
Orderings(S) == {o \in [1..Cardinality(S) -> S] : Range(o) = S}

\* sources = list(set([doc["metadata"].get("doc_name", "Unknown") ...]))
sources_of(retrieved_docs) ==
    Orderings({Get(retrieved_docs[i].metadata, "doc_name", "Unknown")
               : i \in DOMAIN retrieved_docs})

NoDocumentsMessage == <<"I couldn't find any relevant documents to answer your question.">>

\* the events of the stream, all of one shape
Event(type) ==
    [ type |-> type, token |-> <<>>, text |-> <<>>, message |-> <<>>,
      sources |-> <<>>, citations |-> <<>>, retrieved_documents |-> 0 ]

StatusEvent(stage) == [Event("status") EXCEPT !.message = <<stage>>]

MetadataEvent(sources, retrieved_docs) ==
    [Event("metadata") EXCEPT !.sources = sources,
                              !.citations = citations_of(retrieved_docs),
                              !.retrieved_documents = Len(retrieved_docs)]

\* full_response = token, losing what was received before
append_token_overwrites(full_response, token) == token

\* full_response += token
append_token(full_response, token) == full_response \o token

\* yield {"type": "token", "data": {"token", "partial_response"}}
TokenEvent(token, full_response) ==
    [Event("token") EXCEPT !.token = token, !.text = full_response]

\* the empty-result test left out
no_documents_unchecked(retrieved_docs) == FALSE

\* if not retrieved_docs
no_documents(retrieved_docs) == retrieved_docs = <<>>

CompleteEvent(full_response) == [Event("complete") EXCEPT !.text = full_response]

ErrorEvent(message) == [Event("error") EXCEPT !.message = message]

NoQA ==
    [ pc |-> "idle",
      mode |-> "",                 \* "stream" or "single"
      k |-> 0,
      file_id |-> NoId,
      query |-> 0,                 \* the question (by length)
      retrieved_docs |-> <<>>,
      events |-> <<>>,             \* yielded by ask_question_streaming
      sent |-> <<>>,               \* written by the route's generate_stream
      full_response |-> <<>>,
      fragments |-> 0,             \* chunks received from the model's stream
      llm_calls |-> 0,
      failed |-> "",               \* the step that raised, if any
      min_similarity |-> 0,        \* POST /qa/search: the threshold,
      searched |-> {},             \*   the collection the search ran on,
      results |-> <<>>,            \*   the results and
      total_results |-> 0,         \*   their number
      response |-> [status |-> "", answer |-> <<>>, sources |-> <<>>,
                    citations |-> <<>>, retrieved_documents |-> 0] ]

Queries == {100, 300}
Fragments == {<<>>, <<"a">>, <<"b">>}

\* one event leaves the retriever and the route forwards it
Yield(q, ev) == [q EXCEPT !.events = Append(@, ev), !.sent = Append(@, ev.type)]

\* the generator is exhausted: the route adds its [DONE] line
Finish(q) == [q EXCEPT !.pc = "done", !.sent = Append(@, "[DONE]")]

\* POST /qa/ask: ask_question_streaming up to its first yield
StreamStart ==
    /\ qa.pc = "idle"
    /\ \E k \in 1..MaxK, f \in 0..MaxDocs, query_text \in Queries :
        qa' = Yield([NoQA EXCEPT !.pc = "embed", !.mode = "stream", !.k = k,
                                 !.file_id = f, !.query = query_text],
                    StatusEvent("embedding"))
    /\ UNCHANGED <<collection, dimensionality, store_log, ingest_vars>>

\* embed_query, then the retrieval status; an exception reaches the handler of
\* ask_question_streaming, which yields an error event
StreamEmbed ==
    /\ qa.mode = "stream"
    /\ qa.pc = "embed"
    /\ \E outcome \in Outcomes :
        IF outcome = "ok"
        THEN qa' = Yield([qa EXCEPT !.pc = "retrieve"], StatusEvent("retrieval"))
        ELSE qa' = Finish(Yield([qa EXCEPT !.failed = "embed"],
                     ErrorEvent(<<"Failed to process streaming question">>)))
    /\ UNCHANGED <<collection, dimensionality, store_log, ingest_vars>>

\* retrieve_relevant_documents, the empty-result branch, the generation status
StreamRetrieve ==
    /\ qa.mode = "stream"
    /\ qa.pc = "retrieve"
    /\ \E outcome \in Outcomes :
        IF outcome = "ok"
        THEN \E results \in query(where_clause(collection, qa.file_id),
                                  embed_text(qa.query), qa.k) :
                LET docs == retrieved(results, embed_text(qa.query))
                IN  IF no_documents(docs)
                    THEN qa' = Finish(Yield(qa, ErrorEvent(NoDocumentsMessage)))
                    ELSE qa' = Yield([qa EXCEPT !.pc = "generate",
                                                !.retrieved_docs = docs],
                                     StatusEvent("generation"))
        ELSE qa' = Finish(Yield([qa EXCEPT !.failed = "retrieve"],
                     ErrorEvent(<<"Failed to process streaming question">>)))
    /\ UNCHANGED <<collection, dimensionality, store_log, ingest_vars>>

\* generate_streaming_response up to its first yield: the metadata event
StreamMetadata ==
    /\ qa.mode = "stream"
    /\ qa.pc = "generate"
    /\ \E sources \in sources_of(qa.retrieved_docs) :
        qa' = Yield([qa EXCEPT !.pc = "invoke"],
                    MetadataEvent(sources, qa.retrieved_docs))
    /\ UNCHANGED <<collection, dimensionality, store_log, ingest_vars>>

\* chain.astream(...) is entered: the language model is called
StreamInvoke ==
    /\ qa.mode = "stream"
    /\ qa.pc = "invoke"
    /\ qa' = [qa EXCEPT !.pc = "tokens", !.llm_calls = @ + 1]
    /\ UNCHANGED <<collection, dimensionality, store_log, ingest_vars>>

\* one chunk of the model's stream: text is appended and yielded, an empty
\* chunk is skipped
StreamToken ==
    /\ qa.mode = "stream"
    /\ qa.pc = "tokens"
    /\ qa.fragments < MaxFragments
    /\ \E token \in Fragments :
        IF token # <<>>
        THEN LET full_response == append_token(qa.full_response, token)
             IN  qa' = Yield([qa EXCEPT !.fragments = @ + 1,
                                        !.full_response = full_response],
                             TokenEvent(token, full_response))
        ELSE qa' = [qa EXCEPT !.fragments = @ + 1]
    /\ UNCHANGED <<collection, dimensionality, store_log, ingest_vars>>

\* the model's stream ends: the complete event
StreamComplete ==
    /\ qa.mode = "stream"
    /\ qa.pc = "tokens"
    /\ qa' = Finish(Yield(qa, CompleteEvent(qa.full_response)))
    /\ UNCHANGED <<collection, dimensionality, store_log, ingest_vars>>

\* the model's stream raises and the exception leaves the generator unhandled
StreamErrorUnhandled ==
    /\ qa.mode = "stream"
    /\ qa.pc = "tokens"
    /\ qa' = Finish([qa EXCEPT !.failed = "generate"])
    /\ UNCHANGED <<collection, dimensionality, store_log, ingest_vars>>

\* the model's stream raises: the handler of generate_streaming_response
\* yields an error event
StreamError ==
    /\ qa.mode = "stream"
    /\ qa.pc = "tokens"
    /\ qa' = Finish(Yield([qa EXCEPT !.failed = "generate"],
                ErrorEvent(<<"Failed to generate streaming response">>)))
    /\ UNCHANGED <<collection, dimensionality, store_log, ingest_vars>>

\* the client disconnects while the generator is suspended at a yield: the
\* generator is closed, and no handler for Exception runs
StreamCancel ==
    /\ qa.mode = "stream"
    /\ qa.pc \in {"embed", "retrieve", "generate", "invoke", "tokens"}
    /\ qa.events # <<>>
    /\ qa' = [qa EXCEPT !.pc = "cancelled"]
    /\ UNCHANGED <<collection, dimensionality, store_log, ingest_vars>>

NoResult == [status |-> "", answer |-> <<>>, sources |-> <<>>,
             citations |-> <<>>, retrieved_documents |-> 0]

\* ask_question, steps 1 and 2, and the empty-result answer
AskRetrieve ==
    /\ qa.pc = "idle"
    /\ \E k \in 1..MaxK, f \in 0..MaxDocs, query_text \in Queries,
          embed_outcome \in Outcomes, search_outcome \in Outcomes :
        LET q0 == [NoQA EXCEPT !.mode = "single", !.k = k, !.file_id = f,
                               !.query = query_text]
        IN  IF embed_outcome = "fail" \/ search_outcome = "fail"
            THEN qa' = [q0 EXCEPT
                          !.pc = "done",
                          !.failed = IF embed_outcome = "fail" THEN "embed" ELSE "retrieve",
                          !.response = [NoResult EXCEPT !.status = "raised",
                              !.answer = <<"Failed to process question: ">>]]
            ELSE \E results \in query(where_clause(collection, f),
                                      embed_text(query_text), k) :
                    LET docs == retrieved(results, embed_text(query_text))
                    IN  IF no_documents(docs)
                        THEN qa' = [q0 EXCEPT
                                      !.pc = "done",
                                      !.response = [NoResult EXCEPT !.status = "ok",
                                                      !.answer = NoDocumentsMessage]]
                        ELSE qa' = [q0 EXCEPT !.pc = "respond", !.retrieved_docs = docs]
    /\ UNCHANGED <<collection, dimensionality, store_log, ingest_vars>>

\* ask_question, steps 3 and 4: generate_response calls the language model
AskGenerate ==
    /\ qa.mode = "single"
    /\ qa.pc = "respond"
    /\ \E outcome \in Outcomes, answer \in Fragments \ {<<>>},
          sources \in sources_of(qa.retrieved_docs) :
        IF outcome = "ok"
        THEN qa' = [qa EXCEPT
                      !.pc = "done", !.llm_calls = @ + 1,
                      !.response = [ status |-> "ok", answer |-> answer,
                                     sources |-> sources,
                                     citations |-> citations_of(qa.retrieved_docs),
                                     retrieved_documents |-> Len(qa.retrieved_docs) ]]
        ELSE qa' = [qa EXCEPT
                      !.pc = "done", !.llm_calls = @ + 1, !.failed = "generate",
                      !.response = [NoResult EXCEPT !.status = "raised",
                          !.answer = <<"Failed to process question: ">>]]
    /\ UNCHANGED <<collection, dimensionality, store_log, ingest_vars>>

(***************************************************************************)
(* POST /qa/search and the store's delete_documents_by_file_id             *)
(***************************************************************************)
\* the thresholds a client sends (ge=0.0, le=1.0, default 0.0), in the unit of
\* the scores
MinSimilarities == {0, 1}

\* if request.min_similarity > 0: keep the docs with a score >= min_similarity
min_similarity_filter(docs, min_similarity) ==
    IF min_similarity > 0
    THEN SelectSeq(docs, LAMBDA d : d.similarity_score >= min_similarity)
    ELSE docs

\* semantic_search up to its await of embed_query
SearchStart ==
    /\ qa.pc = "idle"
    /\ \E k \in 1..MaxSearchK, f \in 0..(MaxDocs + 1), query_text \in Queries,
          m \in MinSimilarities :
        qa' = [NoQA EXCEPT !.pc = "search", !.mode = "search", !.k = k,
                           !.file_id = f, !.query = query_text,
                           !.min_similarity = m]
    /\ UNCHANGED <<collection, dimensionality, store_log, ingest_vars>>

\* semantic_search from the query embedding to its response
SearchRetrieve ==
    /\ qa.mode = "search"
    /\ qa.pc = "search"
    /\ \E outcome \in Outcomes :
        IF outcome = "ok"
        THEN \E found \in query(where_clause(collection, qa.file_id),
                                embed_text(qa.query), qa.k) :
                LET docs == retrieved(found, embed_text(qa.query))
                    kept == min_similarity_filter(docs, qa.min_similarity)
                IN  qa' = [qa EXCEPT !.pc = "done",
                                     !.retrieved_docs = docs,
                                     !.searched = collection,
                                     !.results = kept,
                                     !.total_results = Len(kept)]
        ELSE qa' = [qa EXCEPT !.pc = "done", !.failed = "search"]
    /\ UNCHANGED <<collection, dimensionality, store_log, ingest_vars>>

\* every entry removed, whatever document it belongs to
delete_documents_unfiltered(coll, file_id) ==
    [ collection |-> {},
      deleted_count |-> Cardinality(coll),
      status |-> IF coll # {} THEN "success" ELSE "no_documents_found" ]

\* delete_documents_by_file_id: collection.get(where doc_id), then
\* collection.delete(ids) when there are any
delete_documents_by_file_id(coll, file_id) ==
    LET ids == {e.id : e \in {x \in coll : x.metadata.doc_id = file_id}}
    IN  IF ids # {}
        THEN [ collection |-> {e \in coll : e.id \notin ids},
               deleted_count |-> Cardinality(ids),
               status |-> "success" ]
        ELSE [ collection |-> coll,
               deleted_count |-> 0,
               status |-> "no_documents_found" ]

\* a call of delete_documents_by_file_id, before a search request arrives
DeleteDocuments ==
    /\ qa.pc = "idle"
    /\ Len(store_log) < MaxDeleteCalls
    /\ \E file_id \in 1..(MaxDocs + 1) :
        LET answer == delete_documents_by_file_id(collection, file_id)
        IN  /\ collection' = answer.collection
            /\ store_log' = Append(store_log,
                    [ file_id |-> file_id,
                      before |-> collection,
                      after |-> answer.collection,
                      deleted_count |-> answer.deleted_count,
                      status |-> answer.status ])
    /\ UNCHANGED <<qa, dimensionality, ingest_vars>>

\* what a successful ingestion of file f under doc_id leaves in the collection
Ingested(f, doc_id, uuid0) ==
    LET chunks == create_chunks(
                      extract_text(f.pages, content_type_map(get_file_extension(f.filename))),
                      doc_id, f.filename, Absent, Absent, uuid0)
    IN  index_entries(doc_id, chunks, embed_documents(chunks))

\* the collections the retriever can find: up to MaxDocs ingested documents
IndexStates ==
    UNION { { UNION {Ingested(fs[i], i, 10 * i) : i \in 1..n} : fs \in [1..n -> Uploadable] }
            : n \in 0..MaxDocs }

InitQA ==
    /\ next_uuid = 10 * (MaxDocs + 1)
    /\ disk = <<>>
    /\ metadata = <<>>
    /\ metadata_file = TRUE
    /\ collection \in IndexStates
    /\ progress_data = <<>>
    /\ stage_log = <<>>
    /\ req = [r \in Reqs |-> IdleRequest]
    /\ running = 0
    /\ resets = 0
    /\ qa = NoQA
    /\ env = [requests |-> 0, faulty |-> TRUE,
             dimension |-> DefaultDimension]
    /\ calls = [r \in Reqs |-> <<>>]
    /\ del_resp = NoDelete
    /\ store_log = <<>>
    /\ listeners = <<>>
    /\ streams = [q \in Streams |-> IdleStream]
    /\ splitter = NoSplit
    /\ fs_log = <<>>
    /\ dimensionality = IF collection = {} THEN NoDimension ELSE DefaultDimension
    /\ wiped = {}

NextQA ==
    \/ StreamStart
    \/ StreamEmbed
    \/ StreamRetrieve
    \/ StreamMetadata
    \/ StreamInvoke
    \/ StreamToken
    \/ StreamComplete
    \/ StreamError
    \/ StreamCancel
    \/ AskRetrieve
    \/ AskGenerate

SpecQA == InitQA /\ [][NextQA]_vars

\* the vector store under searches and deletions
NextStore ==
    \/ SearchStart
    \/ SearchRetrieve
    \/ DeleteDocuments

SpecStore == InitQA /\ [][NextStore]_vars

(***************************************************************************)
(* Specification of the ingestion side                                     *)
(***************************************************************************)
Init ==
    /\ next_uuid = 1
    /\ disk = <<>>
    /\ metadata = <<>>
    /\ metadata_file = TRUE
    /\ collection = {}
    /\ progress_data = <<>>
    /\ stage_log = <<>>
    /\ req = [r \in Reqs |-> IdleRequest]
    /\ running = 0
    /\ resets = 0
    /\ qa = NoQA
    /\ env = [requests |-> MaxUploads, faulty |-> TRUE,
             dimension |-> DefaultDimension]
    /\ calls = [r \in Reqs |-> <<>>]
    /\ del_resp = NoDelete
    /\ store_log = <<>>
    /\ listeners = <<>>
    /\ streams = [q \in Streams |-> IdleStream]
    /\ splitter = NoSplit
    /\ fs_log = <<>>
    /\ dimensionality = NoDimension
    /\ wiped = {}

Next ==
    \/ \E r \in Reqs : UploadStart(r)
    \/ \E r \in Reqs : UploadReject(r)
    \/ \E r \in Reqs : UploadSave(r)
    \/ \E r \in Reqs : UploadExtract(r)
    \/ \E r \in Reqs : UploadChunk(r)
    \/ \E r \in Reqs : UploadEmbed(r)
    \/ \E r \in Reqs : UploadIndex(r)
    \/ \E r \in Reqs : UploadComplete(r)
    \/ \E r \in Reqs : UploadFail(r)
    \/ \E r \in Reqs : PDStart(r)
    \/ \E r \in Reqs : PDSaveToEmbed(r)
    \/ \E r \in Reqs : PDEmbedToEnd(r)
    \/ ResetApplication

Spec == Init /\ [][Next]_vars

(***************************************************************************)
(* Concurrent ingestions in an environment where no collaborator fails and *)
(* nothing is reset or deleted                                             *)
(***************************************************************************)
InitConcurrent ==
    /\ next_uuid = 1
    /\ disk = <<>>
    /\ metadata = <<>>
    /\ metadata_file = TRUE
    /\ collection = {}
    /\ progress_data = <<>>
    /\ stage_log = <<>>
    /\ req = [r \in Reqs |-> IdleRequest]
    /\ running = 0
    /\ resets = 0
    /\ qa = NoQA
    /\ env = [requests |-> MaxConcurrent, faulty |-> FALSE,
             dimension |-> DefaultDimension]
    /\ calls = [r \in Reqs |-> <<>>]
    /\ del_resp = NoDelete
    /\ store_log = <<>>
    /\ listeners = <<>>
    /\ streams = [q \in Streams |-> IdleStream]
    /\ splitter = NoSplit
    /\ fs_log = <<>>
    /\ dimensionality = NoDimension
    /\ wiped = {}

NextConcurrent ==
    \/ \E r \in Reqs : UploadStart(r)
    \/ \E r \in Reqs : UploadSave(r)
    \/ \E r \in Reqs : UploadExtract(r)
    \/ \E r \in Reqs : UploadChunk(r)
    \/ \E r \in Reqs : UploadEmbed(r)
    \/ \E r \in Reqs : UploadIndex(r)
    \/ \E r \in Reqs : UploadComplete(r)
    \/ \E r \in Reqs : PDStart(r)
    \/ \E r \in Reqs : PDSaveToEmbed(r)
    \/ \E r \in Reqs : PDEmbedToEnd(r)

SpecConcurrent == InitConcurrent /\ [][NextConcurrent]_vars

(***************************************************************************)
(* Ingestions and deletions through DELETE /delete/{file_id}, in an        *)
(* environment where no collaborator fails                                 *)
(***************************************************************************)
InitDelete ==
    /\ next_uuid = 1
    /\ disk = <<>>
    /\ metadata = <<>>
    /\ metadata_file = TRUE
    /\ collection = {}
    /\ progress_data = <<>>
    /\ stage_log = <<>>
    /\ req = [r \in Reqs |-> IdleRequest]
    /\ running = 0
    /\ resets = 0
    /\ qa = NoQA
    /\ env = [requests |-> MaxUploads, faulty |-> FALSE,
             dimension |-> DefaultDimension]
    /\ calls = [r \in Reqs |-> <<>>]
    /\ del_resp = NoDelete
    /\ store_log = <<>>
    /\ listeners = <<>>
    /\ streams = [q \in Streams |-> IdleStream]
    /\ splitter = NoSplit
    /\ fs_log = <<>>
    /\ dimensionality = NoDimension
    /\ wiped = {}

NextDelete ==
    \/ NextConcurrent
    \/ DeleteEndpoint

SpecDelete == InitDelete /\ [][NextDelete]_vars

(***************************************************************************)
(* The life of the index: ingestions, deletions, resets and a change of    *)
(* the embedding model, where no other collaborator fails                  *)
(***************************************************************************)
InitLifecycle ==
    /\ next_uuid = 1
    /\ disk = <<>>
    /\ metadata = <<>>
    /\ metadata_file = TRUE
    /\ collection = {}
    /\ progress_data = <<>>
    /\ stage_log = <<>>
    /\ req = [r \in Reqs |-> IdleRequest]
    /\ running = 0
    /\ resets = 0
    /\ qa = NoQA
    /\ env = [requests |-> MaxConcurrent, faulty |-> FALSE,
             dimension |-> DefaultDimension]
    /\ calls = [r \in Reqs |-> <<>>]
    /\ del_resp = NoDelete
    /\ store_log = <<>>
    /\ listeners = <<>>
    /\ streams = [q \in Streams |-> IdleStream]
    /\ splitter = NoSplit
    /\ fs_log = <<>>
    /\ dimensionality = NoDimension
    /\ wiped = {}

\* the clients send one ingestion request at a time
OneAtATime == \A q \in Reqs : req[q].pc \in {"idle", "done"}

UploadNext(r) == OneAtATime /\ UploadStart(r)

PDNext(r) == OneAtATime /\ PDStart(r)

NextSerial ==
    \/ \E r \in Reqs : UploadNext(r)
    \/ \E r \in Reqs : PDNext(r)
    \/ \E r \in Reqs : UploadSave(r)
    \/ \E r \in Reqs : UploadExtract(r)
    \/ \E r \in Reqs : UploadChunk(r)
    \/ \E r \in Reqs : UploadEmbed(r)
    \/ \E r \in Reqs : UploadIndex(r)
    \/ \E r \in Reqs : UploadComplete(r)
    \/ \E r \in Reqs : PDSaveToEmbed(r)
    \/ \E r \in Reqs : PDEmbedToEnd(r)

NextLifecycle ==
    \/ \E r \in Reqs : UploadNext(r)
    \/ \E r \in Reqs : UploadSave(r)
    \/ \E r \in Reqs : UploadExtract(r)
    \/ \E r \in Reqs : UploadChunk(r)
    \/ \E r \in Reqs : UploadEmbed(r)
    \/ \E r \in Reqs : UploadIndex(r)
    \/ \E r \in Reqs : UploadComplete(r)
    \/ DeleteEndpoint
    \/ ResetApplication

SpecLifecycle == InitLifecycle /\ [][NextLifecycle]_vars

\* ingestions before and after the embedding model is changed
NextDimension ==
    \/ NextSerial
    \/ \E r \in Reqs : UploadFail(r)
    \/ SwitchEmbeddingModel

SpecDimension == InitLifecycle /\ [][NextDimension]_vars

(***************************************************************************)
(* One upload, which may fail, watched by progress streams                 *)
(***************************************************************************)
NextProgress ==
    \/ \E r \in Reqs : UploadStart(r)
    \/ \E r \in Reqs : UploadSave(r)
    \/ \E r \in Reqs : UploadExtract(r)
    \/ \E r \in Reqs : UploadChunk(r)
    \/ \E r \in Reqs : UploadEmbed(r)
    \/ \E r \in Reqs : UploadIndex(r)
    \/ \E r \in Reqs : UploadComplete(r)
    \/ \E r \in Reqs : UploadFail(r)
    \/ \E q \in Streams : ProgressOpen(q)
    \/ \E q \in Streams : ProgressGet(q)
    \/ \E q \in Streams : ProgressKeepalive(q)
    \/ \E q \in Streams : ProgressCancel(q)

SpecProgress == Init /\ [][NextProgress]_vars

\* the event loop runs every task that is ready: a request goes on after its
\* await returned, and a generator whose queue holds an entry gets it; nothing
\* obliges a client to send a request, to open a stream or to disconnect
Scheduled ==
    /\ \A r \in Reqs :
          WF_vars(UploadSave(r) \/ UploadExtract(r) \/ UploadChunk(r) \/ UploadEmbed(r)
                  \/ UploadIndex(r) \/ UploadComplete(r) \/ UploadFail(r))
    /\ \A q \in Streams : WF_vars(ProgressGet(q))

SpecProgressFair == SpecProgress /\ Scheduled

(***************************************************************************)
(* The storage service under saves, deletions and reads                    *)
(***************************************************************************)
NextFiles ==
    \/ StorageSave
    \/ StorageDelete
    \/ StorageRead

SpecFiles == InitLifecycle /\ [][NextFiles]_vars

(***************************************************************************)
(* create_chunks applied to the arguments a caller can pass                *)
(***************************************************************************)
InitChunks ==
    /\ next_uuid = 1
    /\ disk = <<>>
    /\ metadata = <<>>
    /\ metadata_file = TRUE
    /\ collection = {}
    /\ progress_data = <<>>
    /\ stage_log = <<>>
    /\ req = [r \in Reqs |-> IdleRequest]
    /\ running = 0
    /\ resets = 0
    /\ qa = NoQA
    /\ env = [requests |-> 0, faulty |-> FALSE,
             dimension |-> DefaultDimension]
    /\ calls = [r \in Reqs |-> <<>>]
    /\ del_resp = NoDelete
    /\ store_log = <<>>
    /\ listeners = <<>>
    /\ streams = [q \in Streams |-> IdleStream]
    /\ splitter \in SplitCalls
    /\ fs_log = <<>>
    /\ dimensionality = NoDimension
    /\ wiped = {}

NextChunks == CreateChunks

SpecChunks == InitChunks /\ [][NextChunks]_vars

(***************************************************************************)
(* Properties of the ingestion side (specification Spec)                   *)
(***************************************************************************)
Terminal == {"completed", "failed"}

Last(s) == s[Len(s)]

\* s without the repetitions of a value written twice in a row
RECURSIVE Dedup(_)
Dedup(s) ==
    IF Len(s) <= 1 THEN s
    ELSE IF s[1] = s[2] THEN Dedup(Tail(s))
    ELSE <<s[1]>> \o Dedup(Tail(s))

\* C1: for every upload handled by upload_file, the values current_stage takes
\* are uploading, extracting, chunking, embedding, indexing in that order, never
\* an earlier stage after a later one, ending in exactly one of completed or
\* failed (completed only after all five stages); a terminal value is written
\* once and nothing is written after it; a finished upload is in a terminal stage.
C1_StageSequence ==
    /\ \A f \in DOMAIN stage_log :
        LET run == Dedup(stage_log[f])
        IN  /\ f \in DOMAIN progress_data
            /\ progress_data[f].current_stage = Last(stage_log[f])
            /\ \A i \in DOMAIN run :
                IF run[i] \in Terminal
                THEN i = Len(run)
                ELSE i <= Len(stage_order) /\ run[i] = stage_order[i]
            /\ Last(run) = "completed" => Len(run) = Len(stage_order) + 1
            /\ Cardinality({i \in DOMAIN stage_log[f] : stage_log[f][i] \in Terminal}) <= 1
    /\ \A r \in Reqs :
        (req[r].route = "upload_file" /\ req[r].pc = "done" /\ req[r].file_id # NoId)
            => /\ req[r].file_id \in DOMAIN stage_log
               /\ Last(stage_log[req[r].file_id]) \in Terminal

\* an upload that failed while embedding: its stages stop there and end in failed
C1_Witness ==
    \E r \in Reqs :
        /\ req[r].route = "upload_file"
        /\ req[r].pc = "done"
        /\ req[r].file_id \in DOMAIN stage_log
        /\ Dedup(stage_log[req[r].file_id])
             = <<"uploading", "extracting", "chunking", "embedding", "failed">>

\* C2: if a stage after the file has been saved fails, then when the ingestion
\* request has finished the saved file and its metadata entry no longer exist,
\* for process_document and for the upload route alike.
C2_FailedIngestionLeavesNoFile ==
    \A r \in Reqs :
        ( /\ req[r].pc = "done"
          /\ req[r].saved_id # NoId
          /\ req[r].failed_stage \in {"extracting", "chunking", "embedding", "indexing"} )
        => /\ req[r].saved_id \notin DOMAIN disk
           /\ req[r].saved_id \notin DOMAIN metadata

\* the entries of the collection that belong to the document of request r
EntriesOf(r) == {e \in collection : e.metadata.doc_id = req[r].file_info.file_id}

\* C3: at every state the collection holds, for each document, either none of
\* its chunks or all the chunks its ingestion produced; when embedding fails or
\* the number of embeddings differs from the number of chunks, none is written.
C3_AllOrNothing ==
    /\ \A r \in Reqs :
        req[r].file_info.file_id # NoId =>
            \/ EntriesOf(r) = {}
            \/ /\ Cardinality(EntriesOf(r)) = Len(req[r].chunks)
               /\ \A i \in DOMAIN req[r].chunks :
                    \E e \in EntriesOf(r) :
                        /\ e.metadata = req[r].chunks[i].metadata
                        /\ e.document = req[r].chunks[i].page_content
    /\ \A r \in Reqs :
        ( \/ req[r].failed_stage = "embedding"
          \/ Len(req[r].embeddings) # Len(req[r].chunks) )
        => EntriesOf(r) = {}
    /\ \A e \in collection :
        \E r \in Reqs : req[r].file_info.file_id = e.metadata.doc_id

\* an ingestion of several chunks got one embedding too few and has finished
C3_Witness ==
    \E r \in Reqs :
        /\ req[r].pc = "done"
        /\ req[r].failed_stage = "indexing"
        /\ Len(req[r].chunks) > 1
        /\ Len(req[r].embeddings) = Len(req[r].chunks) - 1
        /\ EntriesOf(r) = {}

\* C4: when a stage of an upload fails, the error upload_file returns contains
\* the message of the exception that stage raised.
C4_ErrorNamesCause ==
    \A r \in Reqs :
        ( /\ req[r].route = "upload_file"
          /\ req[r].pc = "done"
          /\ req[r].failed_stage # "" )
        => Contains(req[r].response.detail, req[r].cause)

(***************************************************************************)
(* Properties of the retriever (specification SpecQA)                      *)
(***************************************************************************)
EventsOfType(events, types) == {i \in DOMAIN events : events[i].type \in types}

\* the concatenation of the token fragments of the first n events
RECURSIVE TokensUpTo(_, _)
TokensUpTo(events, n) ==
    IF n = 0 THEN <<>>
    ELSE TokensUpTo(events, n - 1)
         \o (IF events[n].type = "token" THEN events[n].token ELSE <<>>)

NoDuplicates(s) == \A i, j \in DOMAIN s : s[i] = s[j] => i = j

\* C5: in every run of a streaming question, exactly one metadata event comes
\* before the first token event, at most one complete or error event is emitted
\* and nothing follows it (so no token follows an error), and when the stream
\* has ended its last event is a complete or an error event; the route forwards
\* the events in order and closes with [DONE].
C5_StreamOrder ==
    qa.mode = "stream" =>
        LET ev == qa.events
            final == EventsOfType(ev, {"complete", "error"})
        IN  /\ Cardinality(EventsOfType(ev, {"metadata"})) <= 1
            /\ \A i \in EventsOfType(ev, {"token"}) :
                 \E m \in EventsOfType(ev, {"metadata"}) : m < i
            /\ Cardinality(final) <= 1
            /\ \A i \in final : i = Len(ev)
            /\ qa.pc = "done" =>
                 /\ final = {Len(ev)}
                 /\ qa.sent = [i \in DOMAIN ev |-> ev[i].type] \o <<"[DONE]">>
            /\ qa.pc # "done" => final = {}

\* the language model failed after it had streamed a token
C5_Witness ==
    /\ qa.mode = "stream"
    /\ qa.pc = "done"
    /\ qa.failed = "generate"
    /\ EventsOfType(qa.events, {"token"}) # {}
    /\ qa.events[Len(qa.events)].type = "error"

C7_NoModelCallWithoutDocuments ==
    /\ qa.retrieved_docs = <<>> => qa.llm_calls = 0
    /\ (qa.mode = "single" /\ qa.pc = "done" /\ qa.failed = "" /\ qa.retrieved_docs = <<>>)
        => qa.response = [ status |-> "ok", answer |-> NoDocumentsMessage,
                           sources |-> <<>>, citations |-> <<>>,
                           retrieved_documents |-> 0 ]

\* a single-shot question finished on an empty result
C7_Witness ==
    /\ qa.mode = "single"
    /\ qa.pc = "done"
    /\ qa.failed = ""
    /\ qa.retrieved_docs = <<>>
    /\ qa.response.answer = NoDocumentsMessage

\* C8: the no-relevant-documents outcome is not an error: when a streaming
\* retrieval returns zero chunks and nothing failed, no event of type error is
\* emitted for the request.
C8_NoDocumentsIsNoError ==
    (qa.mode = "stream" /\ qa.pc = "done" /\ qa.failed = "" /\ qa.retrieved_docs = <<>>)
        => EventsOfType(qa.events, {"error"}) = {}

\* C9: the sources and the citations returned by ask_question, and carried by
\* the metadata event of a stream, contain no duplicates.
C9_SourcesAndCitationsDistinct ==
    /\ (qa.mode = "single" /\ qa.pc = "done")
        => /\ NoDuplicates(qa.response.sources)
           /\ NoDuplicates(qa.response.citations)
    /\ \A i \in EventsOfType(qa.events, {"metadata"}) :
        /\ NoDuplicates(qa.events[i].sources)
        /\ NoDuplicates(qa.events[i].citations)

\* the citation the format prescribes: the name, ", Page p" when there is a
\* page, ", Section i" when there is a chunk_index i >= 0
citation_format(md) ==
    <<md["doc_name"]>>
    \o (IF "page" \in DOMAIN md THEN <<", Page ", ToString(md["page"])>> ELSE <<>>)
    \o (IF "chunk_index" \in DOMAIN md
        THEN <<", Section ", ToString(md["chunk_index"])>> ELSE <<>>)

\* C10: for every chunk metadata with a doc_name, the citation is the document
\* name, ", Page p" exactly when a page is available and ", Section i" exactly
\* when a chunk_index is available, for every chunk_index i >= 0 the chunker
\* produces, the first chunk (index 0) included.
C10_CitationFormat ==
    \A i \in DOMAIN qa.retrieved_docs :
        qa.retrieved_docs[i].citation = citation_format(qa.retrieved_docs[i].metadata)

\* the operations request r invoked, resets left out
Invoked(r) == SelectSeq(calls[r], LAMBDA op : op # "reset")

\* position of the first occurrence of op in s, 0 when there is none
FirstIndex(s, op) ==
    IF \E i \in DOMAIN s : s[i] = op
    THEN CHOOSE i \in DOMAIN s : s[i] = op /\ \A j \in 1..(i - 1) : s[j] # op
    ELSE 0

\* a reset ran while request r was between saving its file and indexing
ResetInFlight(r) ==
    \E i \in DOMAIN calls[r] :
        /\ calls[r][i] = "reset"
        /\ FirstIndex(calls[r], "save_file") \in 1..(i - 1)
        /\ FirstIndex(calls[r], "collection.add") \notin 1..(i - 1)

\* C13: when an application reset ran at a suspension point of an ingestion,
\* between the save of its file and its indexing, then after both have
\* finished the index holds no chunk of that ingestion, whose file the reset
\* removed.
C13_NoStaleWriteAfterReset ==
    \A r \in Reqs :
        ( /\ req[r].pc = "done"
          /\ ResetInFlight(r)
          /\ req[r].saved_id \notin DOMAIN disk )
        => EntriesOf(r) = {}

\* the operations of the pipeline, in the order process_document and
\* process_document_with_progress make them
pipeline == <<"save_file", "extract_text", "create_chunks", "generate_embeddings",
              "index_document", "collection.add">>

\* C18: in every ingestion, the file is saved and then extraction, chunking,
\* embedding and indexing are invoked at most once each and in that order, a
\* stage only after the one before it has returned; a successful ingestion
\* makes exactly one insert into the index, of all the chunks of the document.
C18_StagesOnceInOrder ==
    \A r \in Reqs :
        /\ Len(Invoked(r)) <= Len(pipeline)
        /\ Invoked(r) = SubSeq(pipeline, 1, Len(Invoked(r)))
        /\ Len(Invoked(r)) >= 3 => req[r].documents # <<>>
        /\ Len(Invoked(r)) >= 5 => /\ req[r].chunks # <<>>
                                   /\ req[r].pc \notin {"chunking", "embedding"}
        /\ Len(Invoked(r)) = 6 => Len(req[r].embeddings) = Len(req[r].chunks)
        /\ (req[r].pc = "done" /\ req[r].response.status \in {"201", "completed"})
            => /\ Invoked(r) = pipeline
               /\ resets = 0 => Cardinality(EntriesOf(r)) = Len(req[r].chunks)

\* an upload of a document of several chunks, processed to the end
C18_Witness ==
    \E r \in Reqs :
        /\ req[r].route = "upload_file"
        /\ req[r].pc = "done"
        /\ req[r].response.status = "201"
        /\ Len(req[r].chunks) = 3
        /\ Invoked(r) = pipeline
        /\ Cardinality(EntriesOf(r)) = 3

\* C19: the chunk_index values of the chunks of a document, several segments
\* (the pages of a PDF) included, are 0, 1, ..., n-1 in emission order, so no
\* two chunks of a document share a chunk_index.
C19_ChunkIndexPerDocument ==
    \A r \in Reqs :
        \A i \in DOMAIN req[r].chunks :
            req[r].chunks[i].metadata.chunk_index = i - 1

\* C20: total_chunks_in_doc of every chunk is the number of chunks produced
\* for its document, also when the document has several segments.
C20_TotalChunksInDocument ==
    \A r \in Reqs :
        \A i \in DOMAIN req[r].chunks :
            req[r].chunks[i].metadata.total_chunks_in_doc = Len(req[r].chunks)

(***************************************************************************)
(* Properties of concurrent ingestions (specification SpecConcurrent)      *)
(***************************************************************************)
Succeeded(r) == req[r].pc = "done" /\ req[r].response.status \in {"201", "completed"}

\* C14: however two ingestions of different documents interleave at their
\* suspension points, once both have succeeded the index holds exactly the
\* chunks of both, each entry carries the doc_id and doc_name of its own
\* document, and the metadata store has an entry for each of the two files.
C14_ConcurrentIngestions ==
    /\ \A r \in Reqs :
        Succeeded(r) =>
            /\ Cardinality(EntriesOf(r)) = Len(req[r].chunks)
            /\ \A i \in DOMAIN req[r].chunks :
                 \E e \in EntriesOf(r) :
                    /\ e.metadata = req[r].chunks[i].metadata
                    /\ e.document = req[r].chunks[i].page_content
            /\ \A e \in EntriesOf(r) : e.metadata.doc_name = req[r].file.filename
            /\ req[r].saved_id \in DOMAIN metadata
            /\ metadata[req[r].saved_id].original_filename = req[r].file.filename
            /\ req[r].saved_id \in DOMAIN disk
            /\ disk[req[r].saved_id] = req[r].file.pages
    /\ \A r1, r2 \in Reqs :
        (r1 # r2 /\ Succeeded(r1) /\ Succeeded(r2))
            => /\ req[r1].file_info.file_id # req[r2].file_info.file_id
               /\ req[r1].saved_id # req[r2].saved_id
    /\ (\A r \in Reqs : req[r].pc \in {"idle", "done"})
        => collection = UNION {EntriesOf(r) : r \in {q \in Reqs : Succeeded(q)}}

\* two uploads of different files, the second arriving while the first awaits
\* the read of its file, both processed
C14_Witness ==
    /\ Succeeded(1) /\ Succeeded(2)
    /\ req[1].route = "upload_file" /\ req[2].route = "upload_file"
    /\ req[1].file.filename # req[2].file.filename
    /\ req[1].file_id < req[2].file_id
    /\ req[2].file_id < req[1].saved_id
    /\ Len(req[1].chunks) > 1
    /\ Cardinality(collection) = Len(req[1].chunks) + Len(req[2].chunks)
    /\ Cardinality(DOMAIN metadata) = 2

(***************************************************************************)
(* Properties of the delete endpoint (specification SpecDelete)            *)
(***************************************************************************)
\* C11: when the delete endpoint answers "deleted" for a file_id, the vector
\* index holds no entry whose doc_id is that file_id.
C11_DeletedLeavesNoEntries ==
    del_resp.status = "deleted" => del_resp.remaining = 0

(***************************************************************************)
(* Properties of the vector store and of the search route (SpecStore)      *)
(***************************************************************************)
EntriesOfDocument(coll, file_id) == {e \in coll : e.metadata.doc_id = file_id}

\* a search request that was answered
Searched == qa.mode = "search" /\ qa.pc = "done" /\ qa.failed = ""

\* C12: delete_documents_by_file_id(D) returns the number of D's entries and
\* removes exactly those; a second call for D returns 0 without raising; a
\* document without entries gives 0, not an error; a later search filtered by
\* D returns no results.
C12_DeleteByDocument ==
    /\ \A i \in DOMAIN store_log :
        LET c == store_log[i]
            own == EntriesOfDocument(c.before, c.file_id)
        IN  /\ c.deleted_count = Cardinality(own)
            /\ c.after = c.before \ own
            /\ c.status \in {"success", "no_documents_found"}
            /\ \A j \in DOMAIN store_log :
                 (j < i /\ store_log[j].file_id = c.file_id) => c.deleted_count = 0
    /\ (Searched /\ \E i \in DOMAIN store_log : store_log[i].file_id = qa.file_id)
        => qa.retrieved_docs = <<>> /\ qa.results = <<>>

\* a document of several chunks deleted twice beside another document, then
\* searched for
C12_Witness ==
    /\ Len(store_log) = 2
    /\ store_log[1].file_id = store_log[2].file_id
    /\ store_log[1].deleted_count > 1
    /\ store_log[1].after # {}
    /\ store_log[2].deleted_count = 0
    /\ Searched
    /\ qa.file_id = store_log[1].file_id
    /\ qa.results = <<>>

Min(a, b) == IF a <= b THEN a ELSE b

ChunkIds(docs) == {docs[i].metadata.chunk_id : i \in DOMAIN docs}

\* C15: a search filtered by document D returns only chunks of D, each at most
\* once; with N chunks of D indexed (beside chunks of other documents) it
\* returns min(k, N) results, so with k = N exactly the N chunks of D.
C15_FilteredSearch ==
    (Searched /\ qa.file_id # NoId) =>
        LET own == EntriesOfDocument(qa.searched, qa.file_id)
            docs == qa.retrieved_docs
        IN  /\ Len(docs) = Min(qa.k, Cardinality(own))
            /\ \A i \in DOMAIN docs :
                 /\ docs[i].metadata.doc_id = qa.file_id
                 /\ \E e \in own : /\ e.metadata = docs[i].metadata
                                   /\ e.document = docs[i].content
            /\ Cardinality(ChunkIds(docs)) = Len(docs)
            /\ qa.k >= Cardinality(own)
                 => ChunkIds(docs) = {e.metadata.chunk_id : e \in own}

\* a document of three chunks, indexed beside another document, searched with
\* k = 3
C15_Witness ==
    /\ Searched
    /\ qa.file_id # NoId
    /\ qa.k = 3
    /\ Cardinality(EntriesOfDocument(qa.searched, qa.file_id)) = 3
    /\ qa.searched # EntriesOfDocument(qa.searched, qa.file_id)
    /\ Len(qa.retrieved_docs) = 3

\* the distance the store reports for a retrieved chunk
DistanceOf(doc) ==
    LET e == CHOOSE e \in qa.searched : e.metadata.chunk_id = doc.metadata.chunk_id
    IN  Distance(embed_text(qa.query), e.embedding)

\* C16: retrieve_relevant_documents returns at most k results, the rank of
\* each is its 1-based position, its similarity_score is 1 minus the distance
\* of the store, and the scores do not increase along the list.
C16_RanksAndScores ==
    Searched =>
        LET docs == qa.retrieved_docs
        IN  /\ Len(docs) <= qa.k
            /\ \A i \in DOMAIN docs :
                 /\ docs[i].rank = i
                 /\ docs[i].similarity_score = 1 - DistanceOf(docs[i])
            /\ \A i, j \in DOMAIN docs :
                 i < j => docs[i].similarity_score >= docs[j].similarity_score

\* three results at different distances
C16_Witness ==
    /\ Searched
    /\ Len(qa.retrieved_docs) = 3
    /\ qa.retrieved_docs[1].similarity_score > qa.retrieved_docs[2].similarity_score
    /\ qa.retrieved_docs[2].similarity_score > qa.retrieved_docs[3].similarity_score
    /\ qa.retrieved_docs[3].rank = 3

\* C17: semantic_search returns exactly those of the retrieved top-k chunks
\* whose similarity_score is at least min_similarity, in retrieval order with
\* their original ranks, with no backfill: total_results <= k and total_results
\* is the number of results returned.
C17_MinSimilarityCutoff ==
    Searched =>
        /\ qa.results = SelectSeq(qa.retrieved_docs,
                            LAMBDA d : d.similarity_score >= qa.min_similarity)
        /\ qa.total_results = Len(qa.results)
        /\ qa.total_results <= qa.k

(***************************************************************************)
(* Properties of create_chunks (specification SpecChunks)                  *)
(***************************************************************************)
\* the value create_chunks is asked to use: the argument, or the configured
\* default when the argument is omitted
Asked(x, default) == IF x = Absent THEN default ELSE x

\* the chunks cut from segment k of the call (its page is k)
ChunksOfSegment(k) == SelectSeq(splitter.chunks, LAMBDA c : c.metadata.page = k)

\* ceil((L - overlap) / (chunk_size - overlap)), and one chunk for a non-empty
\* segment that is no longer than the overlap
ExpectedChunks(L, chunk_size, overlap) ==
    IF L = 0 THEN 0
    ELSE IF L <= overlap THEN 1
    ELSE (L - overlap + (chunk_size - overlap) - 1) \div (chunk_size - overlap)

\* C21: for every chunk_size and overlap with 0 <= overlap < chunk_size the call
\* returns, and every segment of length L gives
\* ceil((L - overlap) / (chunk_size - overlap)) chunks when L > 0 (one chunk when
\* the segment is shorter than chunk_size) and no chunk when L = 0.
C21_ChunkCount ==
    (/\ splitter.pc \in {"returned", "raised"}
     /\ splitter.call.chunk_size # Absent
     /\ splitter.call.overlap # Absent
     /\ 0 <= splitter.call.overlap
     /\ splitter.call.overlap < splitter.call.chunk_size)
    => /\ splitter.pc = "returned"
       /\ \A k \in DOMAIN splitter.call.documents :
            Len(ChunksOfSegment(k)) =
                ExpectedChunks(splitter.call.documents[k],
                               splitter.call.chunk_size, splitter.call.overlap)

\* C22: the chunks of a document, taken in emission order with the overlap each
\* shares with the chunk before it in the same segment removed, give back the
\* text of every segment: the first chunk of a segment starts the segment, each
\* later chunk starts inside or right after the one before it and ends after
\* it, the last one ends the segment; every chunk holds between 1 and
\* chunk_size characters; the chunks come segment by segment.
C22_Reconstruction ==
    splitter.pc = "returned" =>
        /\ \A i \in DOMAIN splitter.chunks :
             /\ splitter.chunks[i].page_content >= 1
             /\ splitter.chunks[i].page_content
                    <= Asked(splitter.call.chunk_size, CHUNK_SIZE)
             /\ splitter.chunks[i].metadata.page \in DOMAIN splitter.call.documents
             /\ i > 1 => splitter.chunks[i - 1].metadata.page
                             <= splitter.chunks[i].metadata.page
        /\ \A k \in DOMAIN splitter.call.documents :
             LET mine == ChunksOfSegment(k)
                 L == splitter.call.documents[k]
                 End(j) == mine[j].start + mine[j].page_content
             IN  IF L = 0 THEN mine = <<>>
                 ELSE /\ mine # <<>>
                      /\ mine[1].start = 0
                      /\ End(Len(mine)) = L
                      /\ \A j \in 2..Len(mine) :
                           /\ mine[j].start > mine[j - 1].start
                           /\ mine[j].start <= End(j - 1)
                           /\ End(j) > End(j - 1)

\* two segments of several chunks each, cut with an overlap of 100
C22_Witness ==
    /\ splitter.pc = "returned"
    /\ splitter.call.overlap = 100
    /\ Len(splitter.call.documents) = 2
    /\ Len(ChunksOfSegment(1)) >= 2
    /\ Len(ChunksOfSegment(2)) >= 2
    /\ splitter.chunks[2].start < splitter.chunks[1].page_content

\* C23: create_chunks called with an overlap greater than or equal to
\* chunk_size is rejected and produces no chunks.
C23_OverlapRejected ==
    (/\ splitter.pc \in {"returned", "raised"}
     /\ Asked(splitter.call.overlap, CHUNK_OVERLAP)
            >= Asked(splitter.call.chunk_size, CHUNK_SIZE))
    => /\ splitter.pc = "raised"
       /\ splitter.chunks = <<>>

(***************************************************************************)
(* Properties of the life of the index (specification SpecLifecycle)       *)
(***************************************************************************)
\* the chunk ids ingestion r has produced
ProducedIds(r) == {req[r].chunks[i].metadata.chunk_id : i \in DOMAIN req[r].chunks}

\* C24: the ids of the entries in the index are pairwise distinct, and the
\* chunk ids an ingestion produces are distinct from one another and from the
\* chunk ids of every other ingestion, also when the same file is deleted
\* and uploaded again.
C24_ChunkIdsNeverReused ==
    /\ \A e1 \in collection : \A e2 \in collection : e1.id = e2.id => e1 = e2
    /\ \A r \in Reqs :
         /\ Cardinality(ProducedIds(r)) = Len(req[r].chunks)
         /\ \A q \in Reqs \ {r} : ProducedIds(r) \cap ProducedIds(q) = {}

\* a file uploaded, deleted through the endpoint and uploaded again
C24_Witness ==
    /\ req[1].response.status = "201"
    /\ req[2].response.status = "201"
    /\ req[1].file = req[2].file
    /\ Len(req[1].chunks) >= 2
    /\ del_resp.status = "deleted"
    /\ del_resp.filename = req[1].saved_id
    /\ req[2].saved_id \in DOMAIN disk
    /\ resets = 0

\* the entries ingestion r handed to the index
IndexedBy(r) ==
    index_entries(req[r].file_info.file_id, req[r].chunks, req[r].embeddings)

\* C26: when a reset returns the collection holds no entry; no entry that a
\* reset destroyed is in the collection any later, so no search finds it; and
\* what index_documents has written is in the collection unless a reset
\* destroyed it since.
C26_ResetEmptiesCollection ==
    /\ [][resets' # resets => collection' = {}]_vars
    /\ [](\A e \in collection : e.id \notin wiped)
    /\ [](\A r \in Reqs :
            req[r].pc \in {"indexed", "done"} /\ req[r].failed_stage = ""
            /\ req[r].route # ""
            => \/ IndexedBy(r) \subseteq collection
               \/ {e.id : e \in IndexedBy(r)} \subseteq wiped)

\* a document indexed before the reset and another indexed after it
C26_Witness ==
    /\ resets = 1
    /\ wiped # {}
    /\ req[2].response.status = "201"
    /\ collection = IndexedBy(2)
    /\ collection # {}
    /\ {e.id : e \in IndexedBy(1)} = wiped

(***************************************************************************)
(* Properties of a change of the embedding model (SpecDimension)           *)
(***************************************************************************)
\* ingestion r is about to call index_documents
AtIndexing(r) ==
    \/ req[r].route = "upload_file" /\ req[r].pc = "indexing"
    \/ req[r].route = "process_document" /\ req[r].pc = "embedding"

\* C25: when index_documents is given vectors of another dimension than the
\* collection has established, it raises the dimension mismatch error, the
\* collection is left exactly as it was, and the ingestion ends in failure.
C25_DimensionMismatch ==
    /\ [][\A r \in Reqs :
            (/\ AtIndexing(r)
             /\ req'[r] # req[r]
             /\ dimensionality # NoDimension
             /\ dimensionality # env.dimension)
            => /\ collection' = collection
               /\ dimensionality' = dimensionality
               /\ req'[r].failed_stage = "indexing"
               /\ Contains(req'[r].cause, <<"Embedding dimension mismatch: ">>)]_vars
    /\ [](\A r \in Reqs :
            req[r].pc = "done" /\ req[r].failed_stage = "indexing"
            => req[r].response.status \in {"500", "raised"})

\* an ingestion refused by a collection that holds vectors of another dimension
C25_Witness ==
    /\ req[1].response.status \in {"201", "completed"}
    /\ req[2].pc = "done"
    /\ Contains(req[2].cause, <<"Embedding dimension mismatch: ">>)
    /\ collection = IndexedBy(1)
    /\ collection # {}
    /\ dimensionality # env.dimension

(***************************************************************************)
(* Properties of the storage service (specification SpecFiles)             *)
(***************************************************************************)
\* file_id has a metadata entry in md
HasEntry(md, file_id) == \E n \in DOMAIN md : uuid_str(n) = file_id

\* C27: delete_file on an id without a metadata entry returns False and leaves
\* every stored file and every metadata entry as they were; deleting an
\* existing id returns True, and deleting it again returns False; the bytes
\* save_file stored are read back under the returned id until a delete_file of
\* that id.
C27_StorageDelete ==
    \A i \in DOMAIN fs_log :
        LET c == fs_log[i]
            deleted_before == \E j \in 1..(i - 1) :
                                 /\ fs_log[j].op = "delete_file"
                                 /\ fs_log[j].file_id = c.file_id
        IN  /\ (c.op = "delete_file" /\ ~HasEntry(c.before.metadata, c.file_id))
                => c.result = "False" /\ c.after = c.before
            /\ (c.op = "delete_file" /\ HasEntry(c.before.metadata, c.file_id))
                => c.result = "True"
            /\ (c.op = "delete_file" /\ deleted_before) => c.result = "False"
            /\ (c.op = "get_file_content" /\ ~deleted_before
                 /\ \E j \in 1..(i - 1) : /\ fs_log[j].op = "save_file"
                                           /\ fs_log[j].file_id = c.file_id)
                => /\ c.result = "bytes"
                   /\ \E j \in 1..(i - 1) : /\ fs_log[j].op = "save_file"
                                             /\ fs_log[j].file_id = c.file_id
                                             /\ fs_log[j].content = c.content

(***************************************************************************)
(* Properties of the progress tracker and its streams (SpecProgress)       *)
(***************************************************************************)
\* C28: when upload_file's handler calls fail_processing(file_id, msg) for a
\* tracked file, the call returns (the response carries the processing error
\* and not an error of the tracker), current_stage is failed, error_message is
\* msg, the stage that was active is marked failed, and every listener of the
\* file gets the update on its queue.
C28_FailProcessing ==
    [][\A r \in Reqs :
        (req[r].pc = "raised" /\ req'[r].pc = "done"
         /\ req[r].file_id \in DOMAIN progress_data)
        => LET file_id == req[r].file_id
               msg == <<"Processing failed: ">> \o req[r].cause
               active == progress_data[file_id].current_stage
           IN  /\ req'[r].response.detail
                      = <<"File uploaded but processing failed: ">> \o req[r].cause
               /\ progress_data'[file_id].current_stage = "failed"
               /\ progress_data'[file_id].error_message = msg
               /\ progress_data'[file_id].stages[active] = "failed"
               /\ \A q \in Streams :
                     (file_id \in DOMAIN listeners /\ q \in Range(listeners[file_id]))
                     => streams'[q].queue
                          = Append(streams[q].queue,
                                   [ref |-> file_id, stage |-> "failed"])]_vars

\* the processing of the file stream q was opened for is over
Finished(q) ==
    /\ streams[q].file_id \in DOMAIN progress_data
    /\ progress_data[streams[q].file_id].current_stage \in terminal_stages

\* C29: a progress stream that is open for a file whose processing has reached
\* completed or failed eventually ends, whether it was opened before or after
\* that stage was reached.
C29_StreamsEnd ==
    \A q \in Streams :
        (streams[q].pc = "waiting" /\ Finished(q))
            ~> (streams[q].pc \in {"closed", "cancelled"})

\* C30: after upload_file answered 201, the file_id of the response keys the
\* metadata entry the storage service wrote for the upload, that entry names
\* the stored file, and the id is the doc_id of every entry the upload put in
\* the index.
C30_OneFileId ==
    \A r \in Reqs :
        (req[r].route = "upload_file" /\ req[r].response.status = "201")
        => LET file_id == req[r].response.file_id
           IN  /\ file_id \in DOMAIN metadata
               /\ metadata[file_id].unique_filename = req[r].file_info.unique_filename
               /\ metadata[file_id].unique_filename \in DOMAIN disk
               /\ \A e \in IndexedBy(r) : e.metadata.doc_id = file_id

(***************************************************************************)
(* Properties of DELETE /delete/{file_id} (specification SpecDelete)       *)
(***************************************************************************)
\* the stored files of the document a client knows as file_id: the file the
\* storage service saved under that id, and the file of the ingestion that
\* handed that id out
FilesOf(file_id) ==
    {n \in DOMAIN disk : uuid_str(n) = file_id}
        \cup {req[r].saved_id : r \in {q \in Reqs : /\ req[q].saved_id \in DOMAIN disk
                                                    /\ uuid_str(req[q].file_id) = file_id}}

\* C31: a call of the delete endpoint removes no file but the one of the
\* requested file_id and never the metadata file; when it answers "deleted"
\* the requested id is the id of a stored document, and when it answers 404
\* nothing is removed.
C31_DeleteOnlyRequested ==
    [][del_resp'.calls # del_resp.calls
        => /\ metadata_file' = metadata_file
           /\ del_resp'.status = "404" => disk' = disk
           /\ del_resp'.status = "deleted"
                => /\ FilesOf(del_resp'.file_id) # {}
                   /\ (DOMAIN disk \ DOMAIN disk') \subseteq FilesOf(del_resp'.file_id)]_vars

(***************************************************************************)
(* Properties of the tracker's entries (specification Spec)                *)
(***************************************************************************)
\* the statuses of data before a terminal stage: the current stage is active,
\* the stages before it are completed, the stages after it are pending
StatusesInOrder(data) ==
    LET current == StageIndex(data.current_stage)
    IN  /\ current > 0
        /\ \A i \in DOMAIN stage_order :
              data.stages[stage_order[i]] =
                  IF i < current THEN "completed"
                  ELSE IF i = current THEN "active" ELSE "pending"

\* C32: for every tracked file that is not in a terminal stage, exactly one
\* stage is active and it is current_stage, every earlier stage is completed
\* and every later stage is pending; after complete_processing all five stages
\* are completed and progress_percentage is 100; and progress_percentage never
\* decreases in a step that does not fail the file.
C32_StageStatuses ==
    /\ [](\A f \in DOMAIN progress_data :
            LET data == progress_data[f]
            IN  /\ data.current_stage \notin terminal_stages
                    => /\ StatusesInOrder(data)
                       /\ Cardinality({s \in DOMAIN data.stages :
                                          data.stages[s] = "active"}) = 1
                /\ data.current_stage = "completed"
                    => /\ \A s \in Range(stage_order) : data.stages[s] = "completed"
                       /\ data.progress_percentage = 100)
    /\ [][\A f \in DOMAIN progress_data \cap DOMAIN progress_data' :
            progress_data'[f].current_stage # "failed"
            => progress_data'[f].progress_percentage
                  >= progress_data[f].progress_percentage]_vars

\* an upload waiting for its embeddings: three stages completed, embedding
\* active at 75 percent, indexing pending
C32_Witness ==
    \E f \in DOMAIN progress_data :
        /\ progress_data[f].current_stage = "embedding"
        /\ progress_data[f].progress_percentage = 75
        /\ progress_data[f].stages["chunking"] = "completed"
        /\ progress_data[f].stages["embedding"] = "active"
        /\ progress_data[f].stages["indexing"] = "pending"

(***************************************************************************)
(* The arguments of create_chunks (specification SpecChunks)               *)
(***************************************************************************)
\* C33: a call of create_chunks whose chunk_size and overlap, each the value
\* passed or the configured default when omitted, satisfy
\* 0 <= overlap < chunk_size returns chunks cut with those values: no chunk is
\* longer than chunk_size, a chunk starts chunk_size - overlap characters after
\* the one before it in its segment, and every chunk's metadata records that
\* chunk_size and that overlap.
C33_ArgumentsUsed ==
    LET chunk_size == Asked(splitter.call.chunk_size, CHUNK_SIZE)
        overlap == Asked(splitter.call.overlap, CHUNK_OVERLAP)
    IN  (/\ splitter.pc \in {"returned", "raised"}
         /\ 0 <= overlap
         /\ overlap < chunk_size)
        => /\ splitter.pc = "returned"
           /\ \A i \in DOMAIN splitter.chunks :
                LET c == splitter.chunks[i]
                IN  /\ c.metadata.chunk_size = chunk_size
                    /\ c.metadata.chunk_overlap = overlap
                    /\ c.page_content <= chunk_size
                    /\ (i > 1 /\ splitter.chunks[i - 1].metadata.page = c.metadata.page)
                        => c.start = splitter.chunks[i - 1].start + chunk_size - overlap

(***************************************************************************)
(* What a progress stream sends (specification SpecProgress)               *)
(***************************************************************************)
\* C34: the progress event a stream sends for an entry it takes from its queue
\* shows the stage the file was in when that entry was put on the queue, so a
\* stream that reads late still sends the stages one after the other.
C34_UpdatesAreSnapshots ==
    [][\A q \in Streams :
        (streams[q].queue # <<>> /\ streams'[q].queue = Tail(streams[q].queue))
        => /\ Len(streams'[q].sent) = Len(streams[q].sent) + 1
           /\ streams'[q].sent[Len(streams'[q].sent)].event = "progress"
           /\ streams'[q].sent[Len(streams'[q].sent)].stage
                  = Head(streams[q].queue).stage]_vars
====
